---- MODULE Spec2Model ----
(***************************************************************************)
(* SecureArc: the self-destructing encrypted archive.                      *)
(*                                                                         *)
(* The model follows securearc-core: the writer (archive/writer.rs), the   *)
(* reader (archive/reader.rs), the attempt counter                         *)
(* (self_destruct/counter.rs), the destructor                              *)
(* (self_destruct/destruction.rs) and the format structs (format/*.rs).    *)
(*                                                                         *)
(* Cryptography is idealised symbolically: a derived key is the tuple of   *)
(* the inputs of the KDF, an HMAC is the pair (key, data), an AEAD         *)
(* ciphertext is (key, algorithm, nonce, plaintext) and decrypts only      *)
(* under the same key and algorithm.  Bytes produced by the random         *)
(* generator are fresh values that are never a valid HMAC or ciphertext.   *)
(***************************************************************************)
EXTENDS Integers, Sequences, FiniteSets, TLC

\* ------------------------------------------------------------------ bounds
\* passwords are 1..NumPasswords
NumPasswords == 4
\* write_to_file is given one of the passwords 1..NumWriterPasswords
NumWriterPasswords == 1
\* the random generator yields one of NumRng streams
NumRng == 2
\* the writer's max_attempts is drawn from MIN_MAX_ATTEMPTS..MaxAttemptsHi
MaxAttemptsHi == 3
\* unlock calls per behaviour
MaxUnlocks == 4
\* key slots in a list handed to execute_destruction
MaxSlots == 2
\* direct calls of the counter and the destructor per behaviour
MaxUnitSteps == 3
\* add_file calls per archive
MaxFiles == 2

\* -------------------------------------------------------- program constants
MIN_MAX_ATTEMPTS == 3
MAX_MAX_ATTEMPTS == 99
SALT_SIZE == 32
CHECKSUM_SIZE == 32
MASTER_KEY_SIZE == 32
AES_NONCE_SIZE == 12
CHACHA20_NONCE_SIZE == 12
AEAD_TAG_SIZE == 16

Passwords == 1..NumPasswords
\* the archive paths given to add_file and extract_file: a.txt, b.txt
ArchivePaths == {1, 2}
ReaderIds == {1, 2}

\* format/mod.rs: the algorithm enums
Argon2id == "Argon2id"
Pbkdf2Sha256 == "Pbkdf2Sha256"
Aes256Gcm == "Aes256Gcm"
ChaCha20Poly1305 == "ChaCha20Poly1305"
Lzma2 == "Lzma2"

\* ------------------------------------------------------- random generator
\* thread_rng().fill_bytes / next_u32: the bytes of stream rnd
RngByte(rnd, k) == (rnd * 37 + k * 11) % 256
RngBytes(rnd, n) == [k \in 1..n |-> RngByte(rnd, k)]
\* (a u32; the model's integers stop at 2^31 - 1)
RngU32(rnd, k) == (rnd * 40503 + k * 7919) % 2147483647

\* ------------------------------------------------------------- crypto/kdf.rs
KdfParams(h) ==
    [algorithm |-> h.kdf_algorithm, memory |-> h.kdf_memory,
     iterations |-> h.kdf_iterations, parallelism |-> h.kdf_parallelism]

KdfParamsDefault ==
    [algorithm |-> Argon2id, memory |-> 64 * 1024, iterations |-> 3, parallelism |-> 4]

\* the absence of a key (a failed derivation; random bytes)
NoKey == [pw |-> 0, salt |-> <<>>, params |-> KdfParamsDefault, raw |-> <<>>]

\* (mutant) derive_key without the upper limit on the Argon2 parallelism
derive_key_unlimited_lanes(password, salt, params) ==
    IF params.algorithm = Argon2id
    THEN IF params.memory < 8 * 1024
              \/ params.iterations < 1
              \/ params.parallelism < 1
         THEN [ok |-> FALSE, err |-> "InvalidConfiguration",
               key |-> NoKey]
         ELSE [ok |-> TRUE, err |-> "none",
               key |-> [pw |-> password, salt |-> salt, params |-> params, raw |-> <<>>]]
    ELSE IF params.iterations < 1000
         THEN [ok |-> FALSE, err |-> "InvalidConfiguration",
               key |-> NoKey]
         ELSE [ok |-> TRUE, err |-> "none",
               key |-> [pw |-> password, salt |-> salt, params |-> params, raw |-> <<>>]]

\* derive_key: parameter validation, then the key (a function of its inputs)
derive_key(password, salt, params) ==
    IF params.algorithm = Argon2id
    THEN IF params.memory < 8 * 1024
              \/ params.iterations < 1
              \/ params.parallelism < 1 \/ params.parallelism > 16
         THEN [ok |-> FALSE, err |-> "InvalidConfiguration",
               key |-> NoKey]
         ELSE [ok |-> TRUE, err |-> "none",
               key |-> [pw |-> password, salt |-> salt, params |-> params, raw |-> <<>>]]
    ELSE IF params.iterations < 1000
         THEN [ok |-> FALSE, err |-> "InvalidConfiguration",
               key |-> NoKey]
         ELSE [ok |-> TRUE, err |-> "none",
               key |-> [pw |-> password, salt |-> salt, params |-> params, raw |-> <<>>]]

\* (mutant) the last byte of the salt XORed, not the first
integrity_salt_last_byte(salt) == [salt EXCEPT ![Len(salt)] = 255 - salt[Len(salt)]]

\* integrity_salt[0] ^= 0xFF
integrity_salt(salt) == [salt EXCEPT ![1] = 255 - salt[1]]

\* ------------------------------------------------------ crypto/encryption.rs
\* EncryptionKey::from_bytes on 32 literal bytes (the master key)
key_from_bytes(bytes) == [NoKey EXCEPT !.raw = bytes]

\* encrypt_data: nonce || ciphertext_and_tag
encrypt_data(data, key, algorithm, rnd) ==
    [kind |-> "aead", key |-> key, alg |-> algorithm,
     nonce |-> rnd, pt |-> data, len |-> AES_NONCE_SIZE + Len(data) + AEAD_TAG_SIZE]

\* random bytes of a given length (KeySlot::zeroize)
random_blob(n, rnd) ==
    [kind |-> "rand", key |-> NoKey, alg |-> "none", nonce |-> rnd, pt |-> <<>>, len |-> n]

empty_blob == random_blob(0, 0)

\* decrypt_data: the plaintext, or EncryptionError
decrypt_data(blob, key, algorithm) ==
    IF algorithm = Aes256Gcm /\ blob.len < AES_NONCE_SIZE + AEAD_TAG_SIZE
    THEN [ok |-> FALSE, err |-> "EncryptionError", pt |-> <<>>]
    ELSE IF algorithm = ChaCha20Poly1305 /\ blob.len < CHACHA20_NONCE_SIZE
    THEN [ok |-> FALSE, err |-> "EncryptionError", pt |-> <<>>]
    ELSE IF blob.kind = "aead" /\ blob.key = key /\ blob.alg = algorithm
    THEN [ok |-> TRUE, err |-> "none", pt |-> blob.pt]
    ELSE [ok |-> FALSE, err |-> "EncryptionError", pt |-> <<>>]

\* ------------------------------------------------------- crypto/integrity.rs
\* [0u8; 32], and 32 bytes from the random generator
zero_checksum == [kind |-> "zero", key |-> NoKey, data |-> <<>>, n |-> 0]
random_checksum(rnd) == [kind |-> "rand", key |-> NoKey, data |-> <<>>, n |-> rnd]

\* compute_checksum: HMAC-SHA256(key, data)
compute_checksum(data, key) == [kind |-> "hmac", key |-> key, data |-> data, n |-> 0]

\* ---------------------------------------------------------- format/header.rs
\* bincode writes an enum as the index of its variant, a bool as 0 or 1
KdfVariants == <<Argon2id, Pbkdf2Sha256>>
EncVariants == <<Aes256Gcm, ChaCha20Poly1305>>
CompVariants == <<Lzma2, "Zstd", "Brotli", "None">>

VariantIndex(variants, v) == (CHOOSE i \in 1..Len(variants) : variants[i] = v) - 1

\* bincode::serialize(&SecurityHeader): the fields in declaration order
serialize_header(h) ==
    << VariantIndex(KdfVariants, h.kdf_algorithm), h.kdf_memory, h.kdf_iterations,
       h.kdf_parallelism, VariantIndex(EncVariants, h.encryption_algorithm),
       VariantIndex(CompVariants, h.compression_algorithm), h.salt,
       h.attempt_counter, h.max_attempts, h.checksum,
       IF h.destroyed THEN 1 ELSE 0 >>

\* bincode::deserialize::<SecurityHeader>: fails on an unknown variant or bool
header_decodable(b) ==
    /\ Len(b) = 11
    /\ b[1] \in 0..(Len(KdfVariants) - 1)
    /\ b[5] \in 0..(Len(EncVariants) - 1)
    /\ b[6] \in 0..(Len(CompVariants) - 1)
    /\ b[11] \in {0, 1}

deserialize_header(b) ==
    [kdf_algorithm |-> KdfVariants[b[1] + 1], kdf_memory |-> b[2],
     kdf_iterations |-> b[3], kdf_parallelism |-> b[4],
     encryption_algorithm |-> EncVariants[b[5] + 1],
     compression_algorithm |-> CompVariants[b[6] + 1], salt |-> b[7],
     attempt_counter |-> b[8], max_attempts |-> b[9], checksum |-> b[10],
     destroyed |-> (b[11] = 1)]

\* (mutant) SecurityHeader::new checking the lower limit only
header_new_ok_lower_only(max_attempts) == ~(max_attempts < MIN_MAX_ATTEMPTS)

\* SecurityHeader::new
header_new_ok(max_attempts) ==
    ~(max_attempts < MIN_MAX_ATTEMPTS \/ max_attempts > MAX_MAX_ATTEMPTS)

header_new(max_attempts, rnd) ==
    [kdf_algorithm |-> Argon2id, kdf_memory |-> 64 * 1024, kdf_iterations |-> 3,
     kdf_parallelism |-> 4, encryption_algorithm |-> Aes256Gcm,
     compression_algorithm |-> Lzma2, salt |-> RngBytes(rnd, SALT_SIZE),
     attempt_counter |-> 0, max_attempts |-> max_attempts,
     checksum |-> zero_checksum, destroyed |-> FALSE]

\* SecurityHeader::validate: "Ok" or the error
validate(h) ==
    IF h.max_attempts < MIN_MAX_ATTEMPTS \/ h.max_attempts > MAX_MAX_ATTEMPTS
    THEN "InvalidConfiguration"
    ELSE IF h.attempt_counter > h.max_attempts THEN "ArchiveDestroyed"
    ELSE IF h.destroyed THEN "ArchiveDestroyed"
    ELSE "Ok"

\* (mutant) should_destroy with > for >=
should_destroy_past_max(h) == h.attempt_counter > h.max_attempts \/ h.destroyed

\* SecurityHeader::should_destroy
should_destroy(h) == h.attempt_counter >= h.max_attempts \/ h.destroyed

\* --------------------------------------------------------- format/keyslot.rs
\* KeySlot::new
keyslot_new(slot_id) == [encrypted_key |-> empty_blob, slot_id |-> slot_id, active |-> FALSE]

\* (mutant) zeroize clearing the key bytes
zeroize_clearing(slot, rnd) ==
    [slot EXCEPT !.encrypted_key = empty_blob, !.active = FALSE]

\* KeySlot::zeroize
zeroize(slot, rnd) ==
    [slot EXCEPT !.encrypted_key = IF slot.encrypted_key.len # 0
                                   THEN random_blob(slot.encrypted_key.len, rnd)
                                   ELSE slot.encrypted_key,
                 !.active = FALSE]

\* KeySlot::is_zeroized
is_zeroized(slot) == ~slot.active \/ slot.encrypted_key.len = 0

\* bincode of a KeySlot
serialize_slot(slot) == << slot.encrypted_key, slot.slot_id, IF slot.active THEN 1 ELSE 0 >>
deserialize_slot(b) == [encrypted_key |-> b[1], slot_id |-> b[2], active |-> (b[3] = 1)]

\* ---------------------------------------------------- self_destruct/counter.rs
\* (mutant) the attempt counter left out of the authenticated bytes
serialize_header_for_hmac_without_counter(h) ==
    serialize_header([h EXCEPT !.checksum = zero_checksum, !.attempt_counter = 0])

\* AttemptCounter::serialize_header_for_hmac: the header with its checksum zeroed
serialize_header_for_hmac(h) == serialize_header([h EXCEPT !.checksum = zero_checksum])

\* AttemptCounter::update_checksum
update_checksum(integrity_key, h) ==
    [h EXCEPT !.checksum = compute_checksum(serialize_header_for_hmac(h), integrity_key)]

\* (mutant) verify_checksum comparing the authenticated data, not the key
verify_checksum_ignoring_key(integrity_key, h) ==
    h.checksum.kind = "hmac" /\ h.checksum.data = serialize_header_for_hmac(h)

\* AttemptCounter::verify_checksum: TRUE for Ok, FALSE for CounterTamperingDetected
verify_checksum(integrity_key, h) ==
    compute_checksum(serialize_header_for_hmac(h), integrity_key) = h.checksum

\* (mutant) increment without the should_destroy guard
increment_unguarded(integrity_key, h) ==
    [ok |-> TRUE, err |-> "none",
     header |-> update_checksum(integrity_key, [h EXCEPT !.attempt_counter = @ + 1])]

\* (mutant) increment refreshing the checksum of an unchanged counter
increment_checksum_only(integrity_key, h) ==
    IF should_destroy(h)
    THEN [ok |-> FALSE, err |-> "ArchiveDestroyed", header |-> h]
    ELSE [ok |-> TRUE, err |-> "none", header |-> update_checksum(integrity_key, h)]

\* AttemptCounter::increment: the header afterwards, or ArchiveDestroyed
\* (past the guard attempt_counter < max_attempts, so the u32 cannot overflow)
increment(integrity_key, h) ==
    IF should_destroy(h)
    THEN [ok |-> FALSE, err |-> "ArchiveDestroyed", header |-> h]
    ELSE [ok |-> TRUE, err |-> "none",
          header |-> update_checksum(integrity_key,
                                     [h EXCEPT !.attempt_counter = @ + 1])]

\* AttemptCounter::get_remaining_attempts
get_remaining_attempts(h) ==
    IF h.attempt_counter >= h.max_attempts THEN 0 ELSE h.max_attempts - h.attempt_counter

\* ------------------------------------------------ self_destruct/destruction.rs
\* (mutant) a destruction refused on a header already destroyed
execute_destruction_once(h, key_slots, rnd) ==
    IF h.destroyed
    THEN [res |-> "ArchiveDestroyed", header |-> h, key_slots |-> key_slots]
    ELSE [res |-> "Ok",
          header |-> [h EXCEPT !.salt = RngBytes(rnd, SALT_SIZE),
                               !.kdf_memory = RngU32(rnd, 1),
                               !.kdf_iterations = RngU32(rnd, 2),
                               !.kdf_parallelism = RngU32(rnd, 3),
                               !.destroyed = TRUE,
                               !.checksum = random_checksum(rnd)],
          key_slots |-> [i \in 1..Len(key_slots) |-> zeroize(key_slots[i], rnd)]]

\* SelfDestruct::execute_destruction, the random generator yielding stream rnd
execute_destruction(h, key_slots, rnd) ==
    [res |-> "Ok",
     header |-> [h EXCEPT !.salt = RngBytes(rnd, SALT_SIZE),
                          !.kdf_memory = RngU32(rnd, 1),
                          !.kdf_iterations = RngU32(rnd, 2),
                          !.kdf_parallelism = RngU32(rnd, 3),
                          !.destroyed = TRUE,
                          !.checksum = random_checksum(rnd)],
     key_slots |-> [i \in 1..Len(key_slots) |-> zeroize(key_slots[i], rnd)]]

\* (mutant) is_destroyed looking at the counter only
is_destroyed_counter_only(h) == h.attempt_counter > h.max_attempts

\* SelfDestruct::is_destroyed
is_destroyed(h) == h.destroyed \/ should_destroy(h)

\* SelfDestruct::are_key_slots_destroyed
are_key_slots_destroyed(key_slots) == \A i \in 1..Len(key_slots) : is_zeroized(key_slots[i])

\* ------------------------------------------------------- format/directory.rs
\* CentralDirectory::new
directory_new == [entries |-> <<>>, encrypted_data |-> <<>>]

\* bincode of a FileEntry and of the CentralDirectory
serialize_entry(e) ==
    << e.path, e.original_size, e.compressed_size, e.encrypted_size,
       e.modified_time, e.attributes, e.data_offset >>
deserialize_entry(b) ==
    [path |-> b[1], original_size |-> b[2], compressed_size |-> b[3],
     encrypted_size |-> b[4], modified_time |-> b[5], attributes |-> b[6],
     data_offset |-> b[7]]
serialize_directory(d) ==
    << [i \in 1..Len(d.entries) |-> serialize_entry(d.entries[i])], d.encrypted_data >>
deserialize_directory(b) ==
    [entries |-> [i \in 1..Len(b[1]) |-> deserialize_entry(b[1][i])],
     encrypted_data |-> b[2]]

\* CentralDirectory::add_entry, find_entry (the first entry of that path; 0: none)
add_entry(d, entry) == [d EXCEPT !.entries = Append(@, entry)]

find_entry(d, path) ==
    IF \E i \in 1..Len(d.entries) : d.entries[i].path = path
    THEN CHOOSE i \in 1..Len(d.entries) :
            /\ d.entries[i].path = path
            /\ \A j \in 1..(i - 1) : d.entries[j].path # path
    ELSE 0

\* ------------------------------------------------- compression/algorithms.rs
\* a compressed stream is the framing of its format, here one symbol that is
\* no byte, and the data it encodes; None copies the bytes
StreamTag(algorithm) == 256 + VariantIndex(CompVariants, algorithm)

compress_data(data, algorithm) ==
    IF algorithm = "None" THEN data ELSE << StreamTag(algorithm) >> \o data

\* (mutant) decompress_data returning the stream as it is
decompress_data_copying(compressed_data, algorithm) ==
    [ok |-> TRUE, err |-> "none", data |-> compressed_data]

\* decompress_data: the data, or CompressionError on a stream of another format
decompress_data(compressed_data, algorithm) ==
    IF algorithm = "None"
    THEN [ok |-> TRUE, err |-> "none", data |-> compressed_data]
    ELSE IF compressed_data # <<>> /\ Head(compressed_data) = StreamTag(algorithm)
    THEN [ok |-> TRUE, err |-> "none", data |-> Tail(compressed_data)]
    ELSE [ok |-> FALSE, err |-> "CompressionError", data |-> <<>>]

\* ------------------------------------------------------------ the state
VARIABLES
    writer,     \* the ArchiveWriter: config, master_key, directory, payload
    file,       \* the archive file on disk
    reader,     \* the ArchiveReader instances
    fresh,      \* history: reader r was opened after the latest unlock call
    realPw,     \* history: the password given to write_to_file (0: none yet)
    hist,       \* history: counts of the unlock calls made so far
    last,       \* history: the latest call, its result and the state before it
    snap,       \* a copy of the archive file kept outside the program
    unit        \* a header, key slots and integrity key handed to the
                \* counter and the destructor directly

vars == << writer, file, reader, fresh, realPw, hist, last, snap, unit >>

\* serialized sizes: the header's fields are fixed-size, a slot is its
\* length-prefixed Vec<u8>, its slot_id and its flag
HEADER_BYTES == 97
slot_bytes(slot) == 8 + slot.encrypted_key.len + 1 + 1

RECURSIVE slots_bytes(_)
slots_bytes(key_slots) ==
    IF key_slots = <<>> THEN 0
    ELSE 4 + slot_bytes(Head(key_slots)) + slots_bytes(Tail(key_slots))

\* the offset of the directory length field: magic, header, slot table
directory_offset_of(key_slots) == 8 + 4 + HEADER_BYTES + 4 + slots_bytes(key_slots)

NoFile ==
    [state |-> "absent", header |-> <<>>, slots |-> <<>>, directory_at |-> 0,
     directory |-> empty_blob, payload |-> <<>>]

NoHeader == header_new(0, 0)

NoReader ==
    [live |-> FALSE, header |-> NoHeader, key_slots |-> <<>>,
     directory |-> directory_new, master_key |-> <<>>,
     encryption_algorithm |-> Aes256Gcm, compression_algorithm |-> Lzma2,
     directory_offset |-> 0, payload_offset |-> 0]

\* (ok: the readers on which an unlock returned Ok; added: the path and
\* content of every file given to add_file; tampered: what another process
\* overwrote in the file)
NoHist ==
    [unlocks |-> 0, failed |-> 0, onlyWrong |-> TRUE, used |-> {}, distinctFresh |-> TRUE,
     ok |-> {}, added |-> <<>>, tampered |-> "none"]

NoCall ==
    [op |-> "none", r |-> 0, pw |-> 0, res |-> "none", kdf |-> 0, hmac |-> "none",
     pre_reader |-> NoReader, pre_file |-> NoFile, pre_hist |-> NoHist,
     arg |-> 0, out |-> <<>>, restored |-> FALSE,
     info |-> [max_attempts |-> 0, current_attempts |-> 0, remaining_attempts |-> 0,
               destroyed |-> FALSE, file_count |-> 0]]

\* no copy of the file taken; restored: the copy was put back over the file
\* and no unlock has run since; back: the copy held a smaller attempt_counter
\* than the file it replaced
NoSnap == [taken |-> FALSE, file |-> NoFile, restored |-> FALSE, back |-> FALSE]

\* nothing handed to the counter, the destructor or the KDF
\* (signed: the header as it was when its checksum was last refreshed;
\* pw, salt: the inputs of the latest derive_key; pre_*: the call before it)
NoUnit ==
    [op |-> "none", key |-> NoKey, header |-> NoHeader, key_slots |-> <<>>,
     pre_header |-> NoHeader, pre_slots |-> <<>>, ok |-> TRUE, err |-> "none",
     signed |-> NoHeader, has_signed |-> FALSE, steps |-> 0, destructions |-> 0,
     pw |-> 0, salt |-> <<>>, pre_key |-> NoKey, pre_pw |-> 0, pre_salt |-> <<>>,
     pre_ok |-> FALSE]

\* ------------------------------------------------------- archive/writer.rs
\* ArchiveWriter::new
writer_new(config, rnd) ==
    [config |-> config, master_key |-> RngBytes(rnd, MASTER_KEY_SIZE),
     directory |-> directory_new, payload |-> <<>>]

\* the length in bytes of a payload: the ciphertexts appended one after another
RECURSIVE payload_len(_)
payload_len(payload) ==
    IF payload = <<>> THEN 0 ELSE Head(payload).len + payload_len(Tail(payload))

\* (mutant) add_file taking data_offset after the payload was extended
add_file_offset_after_append(w, source, archive_path, rnd) ==
    LET compressed_data == compress_data(source.data, w.config.compression_algorithm)
        encrypted_data == encrypt_data(compressed_data, key_from_bytes(w.master_key),
                                       w.config.encryption_algorithm, rnd)
        entry == [path |-> archive_path,
                  original_size |-> Len(source.data),
                  compressed_size |-> Len(compressed_data),
                  encrypted_size |-> encrypted_data.len,
                  modified_time |-> source.mtime,
                  attributes |-> 0,
                  data_offset |-> payload_len(Append(w.payload, encrypted_data))]
    IN  IF ~source.exists
        THEN [res |-> "IoError", writer |-> w]
        ELSE [res |-> "Ok",
              writer |-> [w EXCEPT !.payload = Append(@, encrypted_data),
                                   !.directory = add_entry(@, entry)]]

\* ArchiveWriter::add_file: source is the file at file_path (it may not exist)
add_file(w, source, archive_path, rnd) ==
    LET compressed_data == compress_data(source.data, w.config.compression_algorithm)
        encrypted_data == encrypt_data(compressed_data, key_from_bytes(w.master_key),
                                       w.config.encryption_algorithm, rnd)
        entry == [path |-> archive_path,
                  original_size |-> Len(source.data),
                  compressed_size |-> Len(compressed_data),
                  encrypted_size |-> encrypted_data.len,
                  modified_time |-> source.mtime,
                  attributes |-> 0,
                  data_offset |-> payload_len(w.payload)]
    IN  IF ~source.exists
        THEN [res |-> "IoError", writer |-> w]
        ELSE [res |-> "Ok",
              writer |-> [w EXCEPT !.payload = Append(@, encrypted_data),
                                   !.directory = add_entry(@, entry)]]

\* (mutant) write_to_file leaving the header's cipher and compression at the
\* defaults of SecurityHeader::new
write_to_file_default_algorithms(w, password, rnd) ==
    LET truncated == [NoFile EXCEPT !.state = "magic"]
        h0 == header_new(w.config.max_attempts, rnd)
        h1 == [h0 EXCEPT !.kdf_algorithm = w.config.kdf_params.algorithm,
                         !.kdf_memory = w.config.kdf_params.memory,
                         !.kdf_iterations = w.config.kdf_params.iterations,
                         !.kdf_parallelism = w.config.kdf_params.parallelism]
        derived == derive_key(password, h1.salt, w.config.kdf_params)
        integrity == derive_key(password, integrity_salt(h1.salt), w.config.kdf_params)
        primary == [keyslot_new(0) EXCEPT
                      !.encrypted_key = encrypt_data(w.master_key, derived.key,
                                                     w.config.encryption_algorithm, rnd),
                      !.active = TRUE]
        key_slots == << primary >>
        h2 == [h1 EXCEPT !.checksum =
                  compute_checksum(serialize_header_for_hmac(h1), integrity.key)]
    IN  IF ~header_new_ok(w.config.max_attempts)
        THEN [res |-> "InvalidConfiguration", file |-> truncated]
        ELSE IF ~derived.ok THEN [res |-> derived.err, file |-> truncated]
        ELSE IF ~integrity.ok THEN [res |-> integrity.err, file |-> truncated]
        ELSE [res |-> "Ok",
              file |-> [state |-> "archive",
                        header |-> serialize_header(h2),
                        slots |-> [i \in 1..Len(key_slots) |-> serialize_slot(key_slots[i])],
                        directory_at |-> directory_offset_of(key_slots),
                        directory |-> encrypt_data(serialize_directory(w.directory),
                                                   key_from_bytes(w.master_key),
                                                   w.config.encryption_algorithm, rnd),
                        payload |-> w.payload]]

\* ArchiveWriter::write_to_file: the file afterwards and the result.
\* File::create truncates the file and the magic number is buffered before
\* the header is built, so an early error leaves a file holding the magic only.
write_to_file(w, password, rnd) ==
    LET truncated == [NoFile EXCEPT !.state = "magic"]
        h0 == header_new(w.config.max_attempts, rnd)
        h1 == [h0 EXCEPT !.kdf_algorithm = w.config.kdf_params.algorithm,
                         !.kdf_memory = w.config.kdf_params.memory,
                         !.kdf_iterations = w.config.kdf_params.iterations,
                         !.kdf_parallelism = w.config.kdf_params.parallelism,
                         !.encryption_algorithm = w.config.encryption_algorithm,
                         !.compression_algorithm = w.config.compression_algorithm]
        derived == derive_key(password, h1.salt, w.config.kdf_params)
        integrity == derive_key(password, integrity_salt(h1.salt), w.config.kdf_params)
        primary == [keyslot_new(0) EXCEPT
                      !.encrypted_key = encrypt_data(w.master_key, derived.key,
                                                     w.config.encryption_algorithm, rnd),
                      !.active = TRUE]
        key_slots == << primary >>
        h2 == [h1 EXCEPT !.checksum =
                  compute_checksum(serialize_header_for_hmac(h1), integrity.key)]
    IN  IF ~header_new_ok(w.config.max_attempts)
        THEN [res |-> "InvalidConfiguration", file |-> truncated]
        ELSE IF ~derived.ok THEN [res |-> derived.err, file |-> truncated]
        ELSE IF ~integrity.ok THEN [res |-> integrity.err, file |-> truncated]
        ELSE [res |-> "Ok",
              file |-> [state |-> "archive",
                        header |-> serialize_header(h2),
                        slots |-> [i \in 1..Len(key_slots) |-> serialize_slot(key_slots[i])],
                        directory_at |-> directory_offset_of(key_slots),
                        directory |-> encrypt_data(serialize_directory(w.directory),
                                                   key_from_bytes(w.master_key),
                                                   w.config.encryption_algorithm, rnd),
                        payload |-> w.payload]]

\* ------------------------------------------------------- archive/reader.rs
\* (mutant) open without header.validate()
open_unvalidated(f) ==
    LET h == deserialize_header(f.header)
        key_slots == [i \in 1..Len(f.slots) |-> deserialize_slot(f.slots[i])]
        failed(err) == [res |-> err, reader |-> NoReader, file |-> f]
    IN  IF f.state = "absent" THEN failed("IoError")
        ELSE IF f.state = "badmagic" THEN failed("FormatError")
        ELSE IF f.state = "magic" THEN failed("IoError")
        ELSE IF ~header_decodable(f.header) THEN failed("HeaderCorrupted")
        ELSE IF is_destroyed(h) THEN failed("ArchiveDestroyed")
        ELSE [res |-> "Ok",
              reader |-> [live |-> TRUE, header |-> h, key_slots |-> key_slots,
                          directory |-> directory_new, master_key |-> <<>>,
                          encryption_algorithm |-> h.encryption_algorithm,
                          compression_algorithm |-> h.compression_algorithm,
                          directory_offset |-> directory_offset_of(key_slots),
                          payload_offset |-> directory_offset_of(key_slots)
                                                + 8 + f.directory.len + 8],
              file |-> f]

\* ArchiveReader::open: the result, the reader it constructs, and the file
\* (opened for reading and writing) as the call leaves it.  A file that
\* starts with other bytes than MAGIC_NUMBER is a FormatError; one that ends
\* after the magic number is an IoError of read_exact.
open(f) ==
    LET h == deserialize_header(f.header)
        key_slots == [i \in 1..Len(f.slots) |-> deserialize_slot(f.slots[i])]
        failed(err) == [res |-> err, reader |-> NoReader, file |-> f]
    IN  IF f.state = "absent" THEN failed("IoError")
        ELSE IF f.state = "badmagic" THEN failed("FormatError")
        ELSE IF f.state = "magic" THEN failed("IoError")
        ELSE IF ~header_decodable(f.header) THEN failed("HeaderCorrupted")
        ELSE IF validate(h) # "Ok" THEN failed(validate(h))
        ELSE IF is_destroyed(h) THEN failed("ArchiveDestroyed")
        ELSE [res |-> "Ok",
              reader |-> [live |-> TRUE, header |-> h, key_slots |-> key_slots,
                          directory |-> directory_new, master_key |-> <<>>,
                          encryption_algorithm |-> h.encryption_algorithm,
                          compression_algorithm |-> h.compression_algorithm,
                          directory_offset |-> directory_offset_of(key_slots),
                          payload_offset |-> directory_offset_of(key_slots)
                                                + 8 + f.directory.len + 8],
              file |-> f]

\* (mutant) update_file writing a slot table that ends with an empty slot
update_file_appending_slot(rd, f) ==
    LET key_slots == Append(rd.key_slots, keyslot_new(Len(rd.key_slots)))
    IN  [f EXCEPT !.header = serialize_header(rd.header),
                  !.slots = [i \in 1..Len(key_slots) |-> serialize_slot(key_slots[i])],
                  !.directory = IF directory_offset_of(key_slots) = f.directory_at
                                THEN @
                                ELSE random_blob(@.len, 0)]

\* (mutant) update_file writing the header and not the key slots
update_file_header_only(rd, f) == [f EXCEPT !.header = serialize_header(rd.header)]

\* ArchiveReader::update_file: header and key slots written in place from
\* offset 8; the directory is overwritten when the slot table ends elsewhere
update_file(rd, f) ==
    [f EXCEPT !.header = serialize_header(rd.header),
              !.slots = [i \in 1..Len(rd.key_slots) |-> serialize_slot(rd.key_slots[i])],
              !.directory = IF directory_offset_of(rd.key_slots) = f.directory_at
                            THEN @
                            ELSE random_blob(@.len, 0)]

\* (mutant) the failed attempt persisted only when it destroys
count_failed_attempt_unpersisted(rd, f, integrity_key, rnd) ==
    LET inc == increment(integrity_key, rd.header)
        rd1 == [rd EXCEPT !.header = inc.header]
        d   == execute_destruction(rd1.header, rd1.key_slots, rnd)
        rd2 == [rd1 EXCEPT !.header = d.header, !.key_slots = d.key_slots]
    IN  IF ~inc.ok THEN [res |-> inc.err, reader |-> rd, file |-> f]
        ELSE IF should_destroy(rd1.header)
        THEN [res |-> "MaxAttemptsExceeded", reader |-> rd2, file |-> update_file(rd2, f)]
        ELSE [res |-> "InvalidPassword", reader |-> rd1, file |-> f]

\* (mutant) the attempt counted from the counter stored in the file when that
\* one is larger than the reader's
count_failed_attempt_rereading(rd, f, integrity_key, rnd) ==
    LET stored == deserialize_header(f.header).attempt_counter
        rd0 == [rd EXCEPT !.header.attempt_counter = IF stored > @ THEN stored ELSE @]
        inc == increment(integrity_key, rd0.header)
        rd1 == [rd0 EXCEPT !.header = inc.header]
        d   == execute_destruction(rd1.header, rd1.key_slots, rnd)
        rd2 == [rd1 EXCEPT !.header = d.header, !.key_slots = d.key_slots]
    IN  IF ~inc.ok THEN [res |-> inc.err, reader |-> rd, file |-> f]
        ELSE IF should_destroy(rd1.header)
        THEN [res |-> "MaxAttemptsExceeded", reader |-> rd2, file |-> update_file(rd2, f)]
        ELSE [res |-> "InvalidPassword", reader |-> rd1, file |-> update_file(rd1, f)]

\* (mutant) the destruction carried out in memory and not written to the file
count_failed_attempt_destroying_in_memory(rd, f, integrity_key, rnd) ==
    LET inc == increment(integrity_key, rd.header)
        rd1 == [rd EXCEPT !.header = inc.header]
        d   == execute_destruction(rd1.header, rd1.key_slots, rnd)
        rd2 == [rd1 EXCEPT !.header = d.header, !.key_slots = d.key_slots]
    IN  IF ~inc.ok THEN [res |-> inc.err, reader |-> rd, file |-> f]
        ELSE IF should_destroy(rd1.header)
        THEN [res |-> "MaxAttemptsExceeded", reader |-> rd2, file |-> update_file(rd1, f)]
        ELSE [res |-> "InvalidPassword", reader |-> rd1, file |-> update_file(rd1, f)]

\* unlock, lines 150-163 and 188-200: count the attempt, destroy at the
\* maximum, persist, and report
count_failed_attempt(rd, f, integrity_key, rnd) ==
    LET inc == increment(integrity_key, rd.header)
        rd1 == [rd EXCEPT !.header = inc.header]
        d   == execute_destruction(rd1.header, rd1.key_slots, rnd)
        rd2 == [rd1 EXCEPT !.header = d.header, !.key_slots = d.key_slots]
    IN  IF ~inc.ok THEN [res |-> inc.err, reader |-> rd, file |-> f]
        ELSE IF should_destroy(rd1.header)
        THEN [res |-> "MaxAttemptsExceeded", reader |-> rd2, file |-> update_file(rd2, f)]
        ELSE [res |-> "InvalidPassword", reader |-> rd1, file |-> update_file(rd1, f)]

\* (mutant) a successful unlock resetting the attempt counter
store_master_key_resetting(rd, f, master_key_data) ==
    LET rd1 == [rd EXCEPT !.master_key = << master_key_data >>,
                          !.header.attempt_counter = 0]
        dir == decrypt_data(f.directory, key_from_bytes(master_key_data),
                            rd.encryption_algorithm)
    IN  IF rd.directory_offset # f.directory_at \/ ~dir.ok
        THEN [res |-> "EncryptionError", reader |-> rd1, file |-> f]
        ELSE [res |-> "Ok",
              reader |-> [rd1 EXCEPT !.directory = deserialize_directory(dir.pt)],
              file |-> f]

\* (mutant) a directory that fails to decrypt taken as an empty directory
store_master_key_ignoring_directory(rd, f, master_key_data) ==
    LET rd1 == [rd EXCEPT !.master_key = << master_key_data >>]
        dir == decrypt_data(f.directory, key_from_bytes(master_key_data),
                            rd.encryption_algorithm)
    IN  IF rd.directory_offset # f.directory_at \/ ~dir.ok
        THEN [res |-> "Ok", reader |-> rd1, file |-> f]
        ELSE [res |-> "Ok",
              reader |-> [rd1 EXCEPT !.directory = deserialize_directory(dir.pt)],
              file |-> f]

\* unlock, lines 202-229: store the master key, read and decrypt the directory
store_master_key(rd, f, master_key_data) ==
    LET rd1 == [rd EXCEPT !.master_key = << master_key_data >>]
        dir == decrypt_data(f.directory, key_from_bytes(master_key_data),
                            rd.encryption_algorithm)
    IN  IF rd.directory_offset # f.directory_at \/ ~dir.ok
        THEN [res |-> "EncryptionError", reader |-> rd1, file |-> f]
        ELSE [res |-> "Ok",
              reader |-> [rd1 EXCEPT !.directory = deserialize_directory(dir.pt)],
              file |-> f]

\* ArchiveReader::unlock: result, reader and file afterwards; kdf counts the
\* key derivations made, hmac tells how the header verification went
unlock(rd, f, password, rnd) ==
    LET ik == derive_key(password, integrity_salt(rd.header.salt), KdfParams(rd.header))
        dk == derive_key(password, rd.header.salt, KdfParams(rd.header))
        mk == decrypt_data(rd.key_slots[1].encrypted_key, dk.key, rd.encryption_algorithm)
    IN  IF is_destroyed(rd.header)
        THEN [res |-> "ArchiveDestroyed", reader |-> rd, file |-> f,
              kdf |-> 0, hmac |-> "none"]
        ELSE IF ~ik.ok
        THEN [res |-> ik.err, reader |-> rd, file |-> f, kdf |-> 1, hmac |-> "none"]
        ELSE IF ~verify_checksum(ik.key, rd.header)
        THEN count_failed_attempt(rd, f, ik.key, rnd) @@ [kdf |-> 1, hmac |-> "fail"]
        ELSE IF ~dk.ok
        THEN [res |-> dk.err, reader |-> rd, file |-> f, kdf |-> 2, hmac |-> "ok"]
        ELSE IF ~mk.ok
        THEN [res |-> "InvalidPassword", reader |-> rd, file |-> f,
              kdf |-> 2, hmac |-> "ok"]
        ELSE IF Len(mk.pt) # 32
        THEN count_failed_attempt(rd, f, ik.key, rnd) @@ [kdf |-> 2, hmac |-> "ok"]
        ELSE store_master_key(rd, f, mk.pt) @@ [kdf |-> 2, hmac |-> "ok"]

\* where the payload bytes start in the file: after the directory and the
\* payload length field
payload_at(f) == f.directory_at + 8 + f.directory.len + 8

\* seek(pos); read_exact(size bytes): the ciphertext stored in exactly that
\* range, other bytes when the range is not one ciphertext's, or an IoError
\* past the end of the file
read_payload(f, pos, size) ==
    LET start(i) == payload_at(f) + payload_len(SubSeq(f.payload, 1, i - 1))
        hits == { i \in 1..Len(f.payload) : start(i) = pos /\ f.payload[i].len = size }
    IN  IF pos + size > payload_at(f) + payload_len(f.payload)
        THEN [ok |-> FALSE, data |-> empty_blob]
        ELSE IF hits # {}
        THEN [ok |-> TRUE, data |-> f.payload[CHOOSE i \in hits : TRUE]]
        ELSE [ok |-> TRUE, data |-> random_blob(size, 0)]

\* (mutant) extract_file reading from the start of the payload
extract_file_from_payload_start(rd, f, archive_path) ==
    LET i == find_entry(rd.directory, archive_path)
        entry == rd.directory.entries[i]
        raw == read_payload(f, rd.payload_offset, entry.encrypted_size)
        compressed_data == decrypt_data(raw.data, key_from_bytes(rd.master_key[1]),
                                        rd.encryption_algorithm)
        file_data == decompress_data(compressed_data.pt, rd.compression_algorithm)
        failed(err) == [res |-> err, data |-> <<>>, reader |-> rd, file |-> f]
    IN  IF rd.master_key = <<>> THEN failed("InvalidConfiguration")
        ELSE IF i = 0 THEN failed("FileNotFound")
        ELSE IF ~raw.ok THEN failed("IoError")
        ELSE IF ~compressed_data.ok THEN failed(compressed_data.err)
        ELSE IF ~file_data.ok THEN failed(file_data.err)
        ELSE [res |-> "Ok", data |-> file_data.data, reader |-> rd, file |-> f]

\* (mutant) extract_file counting a payload that fails to decrypt as an attempt
extract_file_counting(rd, f, archive_path) ==
    LET i == find_entry(rd.directory, archive_path)
        entry == rd.directory.entries[i]
        raw == read_payload(f, rd.payload_offset + entry.data_offset, entry.encrypted_size)
        compressed_data == decrypt_data(raw.data, key_from_bytes(rd.master_key[1]),
                                        rd.encryption_algorithm)
        file_data == decompress_data(compressed_data.pt, rd.compression_algorithm)
        counted == [rd EXCEPT !.header.attempt_counter = @ + 1]
        failed(err) == [res |-> err, data |-> <<>>, reader |-> rd, file |-> f]
    IN  IF rd.master_key = <<>> THEN failed("InvalidConfiguration")
        ELSE IF i = 0 THEN failed("FileNotFound")
        ELSE IF ~raw.ok THEN failed("IoError")
        ELSE IF ~compressed_data.ok
        THEN [res |-> compressed_data.err, data |-> <<>>,
              reader |-> counted, file |-> update_file(counted, f)]
        ELSE IF ~file_data.ok THEN failed(file_data.err)
        ELSE [res |-> "Ok", data |-> file_data.data, reader |-> rd, file |-> f]

\* ArchiveReader::extract_file: the result, the bytes written to output_path,
\* and the reader (&mut self) and the archive file as the call leaves them
extract_file(rd, f, archive_path) ==
    LET i == find_entry(rd.directory, archive_path)
        entry == rd.directory.entries[i]
        raw == read_payload(f, rd.payload_offset + entry.data_offset, entry.encrypted_size)
        compressed_data == decrypt_data(raw.data, key_from_bytes(rd.master_key[1]),
                                        rd.encryption_algorithm)
        file_data == decompress_data(compressed_data.pt, rd.compression_algorithm)
        failed(err) == [res |-> err, data |-> <<>>, reader |-> rd, file |-> f]
    IN  IF rd.master_key = <<>> THEN failed("InvalidConfiguration")
        ELSE IF i = 0 THEN failed("FileNotFound")
        ELSE IF ~raw.ok THEN failed("IoError")
        ELSE IF ~compressed_data.ok THEN failed(compressed_data.err)
        ELSE IF ~file_data.ok THEN failed(file_data.err)
        ELSE [res |-> "Ok", data |-> file_data.data, reader |-> rd, file |-> f]

\* ArchiveReader::list_files: the paths, or the error
list_files(rd) ==
    IF rd.master_key = <<>>
    THEN [res |-> "InvalidConfiguration", paths |-> <<>>]
    ELSE [res |-> "Ok",
          paths |-> [i \in 1..Len(rd.directory.entries) |-> rd.directory.entries[i].path]]

\* saturating_sub
saturating_sub(a, b) == IF a >= b THEN a - b ELSE 0

\* (mutant) get_info counting the key slots where it should count the entries
get_info_counting_slots(rd) ==
    [max_attempts |-> rd.header.max_attempts,
     current_attempts |-> rd.header.attempt_counter,
     remaining_attempts |-> saturating_sub(rd.header.max_attempts, rd.header.attempt_counter),
     destroyed |-> rd.header.destroyed,
     file_count |-> Len(rd.key_slots)]

\* ArchiveReader::get_info
get_info(rd) ==
    [max_attempts |-> rd.header.max_attempts,
     current_attempts |-> rd.header.attempt_counter,
     remaining_attempts |-> saturating_sub(rd.header.max_attempts, rd.header.attempt_counter),
     destroyed |-> rd.header.destroyed,
     file_count |-> Len(rd.directory.entries)]

\* ------------------------------------------------------------ the machine
\* ArchiveConfig values given to ArchiveWriter::new: max_attempts in and out
\* of range, both ciphers, the default KDF parameters
ConfigMaxAttempts ==
    ((MIN_MAX_ATTEMPTS - 1)..MaxAttemptsHi) \cup {MAX_MAX_ATTEMPTS + 1}

Configs ==
    [max_attempts : ConfigMaxAttempts,
     encryption_algorithm : {Aes256Gcm, ChaCha20Poly1305},
     compression_algorithm : {Lzma2},
     kdf_params : {KdfParamsDefault}]

Init ==
    /\ \E config \in Configs : writer = writer_new(config, 0)
    /\ file = NoFile
    /\ reader = [r \in ReaderIds |-> NoReader]
    /\ fresh = [r \in ReaderIds |-> FALSE]
    /\ realPw = 0
    /\ hist = NoHist
    /\ last = NoCall
    /\ snap = NoSnap
    /\ unit = NoUnit

\* writer.write_to_file(path, password), once per archive
WriteToFile(password, rnd) ==
    LET w == write_to_file(writer, password, rnd)
    IN  /\ file.state = "absent"
        /\ file' = w.file
        /\ realPw' = IF w.res = "Ok" THEN password ELSE 0
        /\ last' = [NoCall EXCEPT !.op = "write_to_file", !.pw = password,
                                  !.res = w.res, !.pre_file = file]
        /\ UNCHANGED << writer, reader, fresh, hist, snap, unit >>

\* reader r = ArchiveReader::open(path); a failed open leaves r as it was
Open(r) ==
    LET o == open(file)
    IN  /\ file.state # "absent"
        /\ reader' = IF o.res = "Ok" THEN [reader EXCEPT ![r] = o.reader] ELSE reader
        /\ file' = o.file
        /\ fresh' = IF o.res = "Ok" THEN [fresh EXCEPT ![r] = TRUE] ELSE fresh
        /\ hist' = IF o.res = "Ok" THEN [hist EXCEPT !.ok = @ \ {r}] ELSE hist
        /\ last' = [NoCall EXCEPT !.op = "open", !.r = r, !.res = o.res,
                                  !.pre_reader = reader[r], !.pre_file = file,
                                  !.pre_hist = hist]
        /\ UNCHANGED << writer, realPw, snap, unit >>

UnlockFailed(res) == res \in {"InvalidPassword", "MaxAttemptsExceeded"}

\* reader r .unlock(password)
Unlock(r, password, rnd) ==
    LET u == unlock(reader[r], file, password, rnd)
    IN  /\ reader[r].live
        /\ hist.unlocks < MaxUnlocks
        /\ reader' = [reader EXCEPT ![r] = u.reader]
        /\ file' = u.file
        /\ fresh' = [q \in ReaderIds |-> FALSE]
        /\ hist' = [unlocks |-> hist.unlocks + 1,
                    failed |-> hist.failed + (IF UnlockFailed(u.res) THEN 1 ELSE 0),
                    onlyWrong |-> hist.onlyWrong /\ password # realPw,
                    used |-> hist.used \cup {password},
                    distinctFresh |-> /\ hist.distinctFresh
                                      /\ fresh[r]
                                      /\ password # realPw
                                      /\ password \notin hist.used,
                    ok |-> IF u.res = "Ok" THEN hist.ok \cup {r} ELSE hist.ok,
                    added |-> hist.added,
                    tampered |-> hist.tampered]
        /\ last' = [NoCall EXCEPT !.op = "unlock", !.r = r, !.pw = password,
                                  !.res = u.res, !.kdf = u.kdf, !.hmac = u.hmac,
                                  !.pre_reader = reader[r], !.pre_file = file,
                                  !.pre_hist = hist,
                                  !.restored = snap.restored /\ fresh[r]]
        /\ snap' = [snap EXCEPT !.restored = FALSE]
        /\ UNCHANGED << writer, realPw, unit >>

\* the files on disk given to add_file: their bytes and modification time,
\* and a path where there is no file
Contents == { <<>>, << 65 >>, << 66, 66 >> }

Sources ==
    [exists : {TRUE}, data : Contents, mtime : {0}]
       \cup { [exists |-> FALSE, data |-> <<>>, mtime |-> 0] }

\* writer.add_file(file_path, archive_path), before the archive is written
AddFile(source, archive_path, rnd) ==
    LET a == add_file(writer, source, archive_path, rnd)
    IN  /\ file.state = "absent"
        /\ Len(hist.added) < MaxFiles
        /\ writer' = a.writer
        /\ hist' = IF a.res = "Ok"
                   THEN [hist EXCEPT !.added =
                            Append(@, [path |-> archive_path, data |-> source.data])]
                   ELSE hist
        /\ last' = [NoCall EXCEPT !.op = "add_file", !.arg = archive_path,
                                  !.res = a.res, !.pre_hist = hist]
        /\ UNCHANGED << file, reader, fresh, realPw, snap, unit >>

\* reader r .list_files()
ListFiles(r) ==
    LET l == list_files(reader[r])
    IN  /\ reader[r].live
        /\ last' = [NoCall EXCEPT !.op = "list_files", !.r = r, !.res = l.res,
                                  !.out = l.paths, !.pre_reader = reader[r],
                                  !.pre_file = file, !.pre_hist = hist]
        /\ UNCHANGED << writer, file, reader, fresh, realPw, hist, snap, unit >>

\* reader r .extract_file(archive_path, output_path)
ExtractFile(r, archive_path) ==
    LET e == extract_file(reader[r], file, archive_path)
    IN  /\ reader[r].live
        /\ reader' = [reader EXCEPT ![r] = e.reader]
        /\ file' = e.file
        /\ last' = [NoCall EXCEPT !.op = "extract_file", !.r = r, !.arg = archive_path,
                                  !.res = e.res, !.out = e.data,
                                  !.pre_reader = reader[r], !.pre_file = file,
                                  !.pre_hist = hist]
        /\ UNCHANGED << writer, fresh, realPw, hist, snap, unit >>

\* the archive is a plain file that open reads by path: another process
\* copies it aside, once ...
TakeSnapshot ==
    /\ file.state = "archive"
    /\ ~snap.taken
    /\ snap' = [NoSnap EXCEPT !.taken = TRUE, !.file = file]
    /\ last' = [NoCall EXCEPT !.op = "snapshot", !.pre_file = file, !.pre_hist = hist]
    /\ UNCHANGED << writer, file, reader, fresh, realPw, hist, unit >>

\* ... and later copies it back over the archive
Rollback ==
    /\ snap.taken
    /\ file # snap.file
    /\ file' = snap.file
    /\ snap' = [snap EXCEPT !.restored = TRUE,
                            !.back = deserialize_header(snap.file.header).attempt_counter
                                        < deserialize_header(file.header).attempt_counter]
    /\ fresh' = [q \in ReaderIds |-> FALSE]
    /\ last' = [NoCall EXCEPT !.op = "rollback", !.pre_file = file, !.pre_hist = hist]
    /\ UNCHANGED << writer, reader, realPw, hist, unit >>

\* one reader instance at a time: every open replaces the reader
Next ==
    \/ \E password \in 1..NumWriterPasswords, rnd \in 1..NumRng :
          WriteToFile(password, rnd)
    \/ Open(1)
    \/ \E password \in Passwords, rnd \in 1..NumRng : Unlock(1, password, rnd)

\* two reader instances on the same file
NextMulti ==
    \/ \E password \in 1..NumWriterPasswords, rnd \in 1..NumRng :
          WriteToFile(password, rnd)
    \/ \E r \in ReaderIds : Open(r)
    \/ \E r \in ReaderIds, password \in Passwords, rnd \in 1..NumRng :
          Unlock(r, password, rnd)

Spec == Init /\ [][Next]_vars

SpecMulti == Init /\ [][NextMulti]_vars

\* ------------------------------------------- a file altered behind the reader
\* the first byte of a little-endian integer replaced by its complement
byte_complement(v) == (v - (v % 256)) + (255 - (v % 256))

\* the serialized header with one byte altered: the first byte of field i
\* (the enum indices, the u32 fields, the salt, the bool), never the checksum
header_byte_altered(b, i) ==
    IF i = 7 THEN [b EXCEPT ![7] = [@ EXCEPT ![1] = 255 - @]]
    ELSE [b EXCEPT ![i] = byte_complement(@)]

\* another process overwrites one header byte of the archive just written
AlterHeaderByte(i) ==
    /\ file.state = "archive"
    /\ hist.tampered = "none"
    /\ hist.unlocks = 0
    /\ ~reader[1].live
    /\ file' = [file EXCEPT !.header = header_byte_altered(@, i)]
    /\ hist' = [hist EXCEPT !.tampered = "header"]
    /\ last' = [NoCall EXCEPT !.op = "alter_header", !.arg = i,
                              !.pre_file = file, !.pre_hist = hist]
    /\ UNCHANGED << writer, reader, fresh, realPw, snap, unit >>

\* ... or a byte of the encrypted directory: the AEAD tag no longer matches
AlterDirectory ==
    /\ file.state = "archive"
    /\ hist.tampered = "none"
    /\ file' = [file EXCEPT !.directory = random_blob(@.len, 0)]
    /\ hist' = [hist EXCEPT !.tampered = "directory"]
    /\ last' = [NoCall EXCEPT !.op = "alter_directory",
                              !.pre_file = file, !.pre_hist = hist]
    /\ UNCHANGED << writer, reader, fresh, realPw, snap, unit >>

\* ... or the first bytes of the file: they are MAGIC_NUMBER no longer
AlterMagic ==
    /\ file.state = "archive"
    /\ hist.tampered = "none"
    /\ file' = [file EXCEPT !.state = "badmagic"]
    /\ hist' = [hist EXCEPT !.tampered = "magic"]
    /\ last' = [NoCall EXCEPT !.op = "alter_magic",
                              !.pre_file = file, !.pre_hist = hist]
    /\ UNCHANGED << writer, reader, fresh, realPw, snap, unit >>

NextTamper ==
    \/ WriteToFile(1, 1)
    \/ AlterMagic
    \/ Open(1)
    \/ \E password \in Passwords : Unlock(1, password, 1)
    \/ \E i \in (1..11) \ {10} : AlterHeaderByte(i)
    \/ AlterDirectory
    \/ ListFiles(1)
    \/ \E archive_path \in ArchivePaths : ExtractFile(1, archive_path)

SpecTamper == Init /\ [][NextTamper]_vars

\* ------------------------------------------------ archives that hold files
\* every cipher and every compression; max_attempts at its minimum
ConfigsFiles ==
    [max_attempts : {MIN_MAX_ATTEMPTS},
     encryption_algorithm : {Aes256Gcm, ChaCha20Poly1305},
     compression_algorithm : {Lzma2, "Zstd", "Brotli", "None"},
     kdf_params : {KdfParamsDefault}]

InitFiles ==
    /\ \E config \in ConfigsFiles : writer = writer_new(config, 0)
    /\ file = NoFile
    /\ reader = [r \in ReaderIds |-> NoReader]
    /\ fresh = [r \in ReaderIds |-> FALSE]
    /\ realPw = 0
    /\ hist = NoHist
    /\ last = NoCall
    /\ snap = NoSnap
    /\ unit = NoUnit

\* the archive's password and another one, each tried once
NextFiles ==
    \/ \E source \in Sources, archive_path \in ArchivePaths :
          AddFile(source, archive_path, 1)
    \/ WriteToFile(1, 1)
    \/ Open(1)
    \/ \E password \in {1, 2} \ hist.used : Unlock(1, password, 1)
    \/ ListFiles(1)
    \/ \E archive_path \in ArchivePaths : ExtractFile(1, archive_path)

SpecFiles == InitFiles /\ [][NextFiles]_vars

\* ------------------------------------- archives that hold files, damaged
\* the first byte of a little-endian integer with its lowest bit flipped
bit_flipped(v) == IF v % 2 = 0 THEN v + 1 ELSE v - 1

\* the serialized header with the lowest bit of field i's first byte flipped
\* (an enum index becomes the index of the neighbouring variant)
header_bit_flipped(b, i) == [b EXCEPT ![i] = bit_flipped(@)]

\* another process flips one bit of the archive just written, in the header ...
AlterHeaderBit(i) ==
    /\ file.state = "archive"
    /\ hist.tampered = "none"
    /\ hist.unlocks = 0
    /\ ~reader[1].live
    /\ file' = [file EXCEPT !.header = header_bit_flipped(@, i)]
    /\ hist' = [hist EXCEPT !.tampered = "header"]
    /\ last' = [NoCall EXCEPT !.op = "alter_header", !.arg = i,
                              !.pre_file = file, !.pre_hist = hist]
    /\ UNCHANGED << writer, reader, fresh, realPw, snap, unit >>

\* ... or overwrites a byte of the k-th stored ciphertext: its AEAD tag no
\* longer matches
AlterPayload(k) ==
    /\ file.state = "archive"
    /\ hist.tampered = "none"
    /\ k \in 1..Len(file.payload)
    /\ file' = [file EXCEPT !.payload[k] = random_blob(@.len, 0)]
    /\ hist' = [hist EXCEPT !.tampered = "payload"]
    /\ last' = [NoCall EXCEPT !.op = "alter_payload", !.arg = k,
                              !.pre_file = file, !.pre_hist = hist]
    /\ UNCHANGED << writer, reader, fresh, realPw, snap, unit >>

\* reader r .get_info()
GetInfo(r) ==
    /\ reader[r].live
    /\ last' = [NoCall EXCEPT !.op = "get_info", !.r = r, !.res = "Ok",
                              !.info = get_info(reader[r]),
                              !.pre_reader = reader[r], !.pre_file = file,
                              !.pre_hist = hist]
    /\ UNCHANGED << writer, file, reader, fresh, realPw, hist, snap, unit >>

\* both ciphers, the default compression, max_attempts at its minimum
ConfigsDamage ==
    [max_attempts : {MIN_MAX_ATTEMPTS},
     encryption_algorithm : {Aes256Gcm, ChaCha20Poly1305},
     compression_algorithm : {Lzma2},
     kdf_params : {KdfParamsDefault}]

InitDamage ==
    /\ \E config \in ConfigsDamage : writer = writer_new(config, 0)
    /\ file = NoFile
    /\ reader = [r \in ReaderIds |-> NoReader]
    /\ fresh = [r \in ReaderIds |-> FALSE]
    /\ realPw = 0
    /\ hist = NoHist
    /\ last = NoCall
    /\ snap = NoSnap
    /\ unit = NoUnit

\* one content per path; the archive's password and another one
NextDamage ==
    \/ \E archive_path \in ArchivePaths :
          AddFile([exists |-> TRUE, data |-> << 65 >>, mtime |-> 0], archive_path, 1)
    \/ WriteToFile(1, 1)
    \/ \E i \in {5, 6} : AlterHeaderBit(i)
    \/ \E k \in 1..MaxFiles : AlterPayload(k)
    \/ AlterDirectory
    \/ Open(1)
    \/ \E password \in {1, 2} : Unlock(1, password, 1)
    \/ ListFiles(1)
    \/ \E archive_path \in ArchivePaths : ExtractFile(1, archive_path)
    \/ GetInfo(1)

SpecDamage == InitDamage /\ [][NextDamage]_vars

\* ------------------------------------------- every configuration, written
\* ArchiveConfig values: max_attempts in and out of range, both ciphers, a
\* compression and none, KDF parameters valid and invalid for each algorithm
KdfParamsChoices ==
    { KdfParamsDefault,
      [algorithm |-> Argon2id, memory |-> 64 * 1024, iterations |-> 3, parallelism |-> 17],
      [algorithm |-> Pbkdf2Sha256, memory |-> 0, iterations |-> 1000, parallelism |-> 1],
      [algorithm |-> Pbkdf2Sha256, memory |-> 0, iterations |-> 999, parallelism |-> 1] }

ConfigsWrite ==
    [max_attempts : ConfigMaxAttempts,
     encryption_algorithm : {Aes256Gcm, ChaCha20Poly1305},
     compression_algorithm : {Lzma2, "None"},
     kdf_params : KdfParamsChoices]

InitWrite ==
    /\ \E config \in ConfigsWrite : writer = writer_new(config, 0)
    /\ file = NoFile
    /\ reader = [r \in ReaderIds |-> NoReader]
    /\ fresh = [r \in ReaderIds |-> FALSE]
    /\ realPw = 0
    /\ hist = NoHist
    /\ last = NoCall
    /\ snap = NoSnap
    /\ unit = NoUnit

\* files added, the archive written, opened, and each of two passwords tried
NextWrite ==
    \/ \E archive_path \in ArchivePaths :
          AddFile([exists |-> TRUE, data |-> << 65 >>, mtime |-> 0], archive_path, 1)
    \/ \E password \in 1..NumWriterPasswords, rnd \in 1..NumRng :
          WriteToFile(password, rnd)
    \/ Open(1)
    \/ \E password \in {1, 2} \ hist.used : Unlock(1, password, 1)

SpecWrite == InitWrite /\ [][NextWrite]_vars

\* ---------------------------------------------- counter and destructor alone
\* headers as a caller may hold them: counter below, at and past the maximum,
\* destroyed or not, the checksum not yet computed
UnitHeaders ==
    { [header_new(m, 1) EXCEPT !.attempt_counter = c, !.destroyed = d] :
         m \in MIN_MAX_ATTEMPTS..MaxAttemptsHi,
         c \in 0..(MaxAttemptsHi + 1),
         d \in BOOLEAN }

\* key slots: new (empty, inactive), holding a wrapped key, active yet empty
UnitSlot(i) ==
    { keyslot_new(i),
      [keyslot_new(i) EXCEPT !.encrypted_key =
                                encrypt_data(RngBytes(0, MASTER_KEY_SIZE), NoKey, Aes256Gcm, 1),
                             !.active = TRUE],
      [keyslot_new(i) EXCEPT !.active = TRUE] }

UnitSlotLists ==
    {<<>>} \cup { << a >> : a \in UnitSlot(0) }
           \cup (IF MaxSlots >= 2
                 THEN { << a, b >> : a \in UnitSlot(0), b \in UnitSlot(1) }
                 ELSE {})

\* AttemptCounter::new(integrity_key) for the key of one of two passwords
UnitKeys ==
    { derive_key(pw, integrity_salt(RngBytes(1, SALT_SIZE)), KdfParamsDefault).key :
         pw \in 1..2 }

InitUnit ==
    /\ writer = writer_new([max_attempts |-> MIN_MAX_ATTEMPTS,
                            encryption_algorithm |-> Aes256Gcm,
                            compression_algorithm |-> Lzma2,
                            kdf_params |-> KdfParamsDefault], 0)
    /\ file = NoFile
    /\ reader = [r \in ReaderIds |-> NoReader]
    /\ fresh = [r \in ReaderIds |-> FALSE]
    /\ realPw = 0
    /\ hist = NoHist
    /\ last = NoCall
    /\ snap = NoSnap
    /\ \E h \in UnitHeaders, ks \in UnitSlotLists, k \in UnitKeys :
          unit = [NoUnit EXCEPT !.header = h, !.key_slots = ks, !.key = k]

UnitStep(u) ==
    /\ unit.steps < MaxUnitSteps
    /\ unit' = [u EXCEPT !.steps = unit.steps + 1,
                         !.pre_header = unit.header, !.pre_slots = unit.key_slots]
    /\ UNCHANGED << writer, file, reader, fresh, realPw, hist, last, snap >>

\* counter.update_checksum(&mut header)
UpdateChecksum ==
    LET h == update_checksum(unit.key, unit.header)
    IN  UnitStep([unit EXCEPT !.op = "update_checksum", !.header = h,
                              !.ok = TRUE, !.err = "none",
                              !.signed = h, !.has_signed = TRUE])

\* counter.verify_checksum(&header)
VerifyChecksum ==
    LET v == verify_checksum(unit.key, unit.header)
    IN  UnitStep([unit EXCEPT !.op = "verify_checksum", !.ok = v,
                              !.err = IF v THEN "none" ELSE "CounterTamperingDetected"])

\* counter.increment(&mut header)
Increment ==
    LET inc == increment(unit.key, unit.header)
    IN  UnitStep([unit EXCEPT !.op = "increment", !.header = inc.header,
                              !.ok = inc.ok, !.err = inc.err,
                              !.signed = IF inc.ok THEN inc.header ELSE @,
                              !.has_signed = IF inc.ok THEN TRUE ELSE @])

\* the headers that differ from h in one field other than the checksum
\* (the fields are public: header.attempt_counter = 0 in the tests)
OtherOf(variants, v) == variants[((VariantIndex(variants, v) + 1) % Len(variants)) + 1]

OneFieldChanged(h) ==
    { [h EXCEPT !.kdf_algorithm = OtherOf(KdfVariants, @)],
      [h EXCEPT !.kdf_memory = @ + 1],
      [h EXCEPT !.kdf_iterations = @ + 1],
      [h EXCEPT !.kdf_parallelism = @ + 1],
      [h EXCEPT !.encryption_algorithm = OtherOf(EncVariants, @)],
      [h EXCEPT !.compression_algorithm = OtherOf(CompVariants, @)],
      [h EXCEPT !.salt = integrity_salt(@)],
      [h EXCEPT !.attempt_counter = @ + 1],
      [h EXCEPT !.attempt_counter = IF @ > 0 THEN @ - 1 ELSE @ + 2],
      [h EXCEPT !.max_attempts = @ + 1],
      [h EXCEPT !.destroyed = ~@] }

\* a field of a header whose checksum was just refreshed is assigned
SetField(h) ==
    /\ unit.op \in {"update_checksum", "increment"}
    /\ unit.ok
    /\ UnitStep([unit EXCEPT !.op = "set_field", !.header = h, !.ok = TRUE, !.err = "none"])

\* SelfDestruct::execute_destruction(&mut header, &mut key_slots)
ExecuteDestruction(rnd) ==
    LET d == execute_destruction(unit.header, unit.key_slots, rnd)
    IN  UnitStep([unit EXCEPT !.op = "execute_destruction", !.header = d.header,
                              !.key_slots = d.key_slots, !.ok = (d.res = "Ok"),
                              !.err = IF d.res = "Ok" THEN "none" ELSE d.res,
                              !.destructions = @ + 1])

NextUnit ==
    \/ UpdateChecksum
    \/ VerifyChecksum
    \/ Increment
    \/ \E h \in OneFieldChanged(unit.header) : SetField(h)
    \/ \E rnd \in 1..NumRng : ExecuteDestruction(rnd)

SpecUnit == InitUnit /\ [][NextUnit]_vars

\* ------------------------------------------------------------ the KDF alone
\* KdfParams as a caller may build them: both algorithms, every parameter
\* just below and at the limits derive_key tests
KdfHeaders ==
    { [header_new(MIN_MAX_ATTEMPTS, 1) EXCEPT !.kdf_algorithm = a, !.kdf_memory = m,
                                              !.kdf_iterations = i, !.kdf_parallelism = p] :
         a \in {Argon2id, Pbkdf2Sha256},
         m \in {8 * 1024 - 1, 8 * 1024},
         i \in {0, 1, 999, 1000},
         p \in {0, 1, 16, 17} }

InitKdf ==
    /\ writer = writer_new([max_attempts |-> MIN_MAX_ATTEMPTS,
                            encryption_algorithm |-> Aes256Gcm,
                            compression_algorithm |-> Lzma2,
                            kdf_params |-> KdfParamsDefault], 0)
    /\ file = NoFile
    /\ reader = [r \in ReaderIds |-> NoReader]
    /\ fresh = [r \in ReaderIds |-> FALSE]
    /\ realPw = 0
    /\ hist = NoHist
    /\ last = NoCall
    /\ snap = NoSnap
    /\ \E h \in KdfHeaders : unit = [NoUnit EXCEPT !.header = h]

\* derive_key(password, salt, &params)
DeriveKey(password, salt) ==
    LET d == derive_key(password, salt, KdfParams(unit.header))
    IN  UnitStep([unit EXCEPT !.op = "derive_key", !.pw = password, !.salt = salt,
                              !.key = d.key, !.ok = d.ok, !.err = d.err,
                              !.pre_key = unit.key, !.pre_pw = unit.pw,
                              !.pre_salt = unit.salt,
                              !.pre_ok = unit.op = "derive_key" /\ unit.ok])

NextKdf ==
    \E password \in 1..2, rnd \in 1..2 : DeriveKey(password, RngBytes(rnd, SALT_SIZE))

SpecKdf == InitKdf /\ [][NextKdf]_vars

\* one archive of the smallest max_attempts, one reader instance, and a
\* process that saves and restores the file
InitRollback ==
    /\ Init
    /\ writer.config.max_attempts = MIN_MAX_ATTEMPTS
    /\ writer.config.encryption_algorithm = Aes256Gcm

NextRollback ==
    \/ WriteToFile(1, 1)
    \/ Open(1)
    \/ \E password \in Passwords : Unlock(1, password, 1)
    \/ TakeSnapshot
    \/ Rollback

SpecRollback == InitRollback /\ [][NextRollback]_vars

\* --------------------------------------------- two readers on one archive
\* one archive of the smallest max_attempts; two reader instances that open
\* and unlock it in any order (open takes no lock on the file)
NextRace ==
    \/ WriteToFile(1, 1)
    \/ \E r \in ReaderIds : Open(r)
    \/ \E r \in ReaderIds, password \in Passwords : Unlock(r, password, 1)

SpecRace == InitRollback /\ [][NextRace]_vars

\* ------------------------------------------------------------ the claims
\* the header and key slots stored in the file, and the configured maximum
disk_header == deserialize_header(file.header)
disk_slots == [i \in 1..Len(file.slots) |-> deserialize_slot(file.slots[i])]
Archive == file.state = "archive"
N == writer.config.max_attempts

\* reader state and file agree: the file holds the reader's header and slots
Persisted(rd, f) ==
    /\ f.header = serialize_header(rd.header)
    /\ f.slots = [i \in 1..Len(rd.key_slots) |-> serialize_slot(rd.key_slots[i])]

\* C1: after k < max_attempts consecutive unlock calls with passwords other
\* than the archive's password, the stored attempt_counter is k and the next
\* unlock with the archive's password returns Ok.
C1_WrongAttemptsCountedThenCorrectOk ==
    /\ (Archive /\ hist.onlyWrong /\ hist.unlocks < N)
          => disk_header.attempt_counter = hist.unlocks
    /\ (/\ last.op = "unlock"
        /\ last.pw = realPw
        /\ last.pre_hist.onlyWrong
        /\ last.pre_hist.unlocks < N)
          => last.res = "Ok"

\* C2: once max_attempts unlock calls have failed the archive is destroyed:
\* the stored header is flagged destroyed, every stored slot is inactive with
\* its key overwritten, open fails and no unlock succeeds any more; so there
\* are never more than max_attempts failed unlocks.
C2_DestroyedAfterMaxFailures ==
    /\ (Archive /\ hist.failed >= N)
          => /\ disk_header.destroyed
             /\ \A i \in 1..Len(disk_slots) :
                   ~disk_slots[i].active /\ disk_slots[i].encrypted_key.kind = "rand"
             /\ open(file).res # "Ok"
    /\ (last.op = "unlock" /\ last.pre_hist.failed >= N) => last.res # "Ok"
    /\ Archive => hist.failed <= N

\* C3: with every unlock made on a freshly opened reader and with pairwise
\* distinct wrong passwords, unlock calls 1..N-1 return InvalidPassword, call
\* N returns MaxAttemptsExceeded and the open after it is rejected with
\* ArchiveDestroyed.
C3_DistinctWrongPasswordsDestroyAtN ==
    /\ (last.op = "unlock" /\ hist.distinctFresh)
          => /\ hist.unlocks < N => last.res = "InvalidPassword"
             /\ hist.unlocks = N => last.res = "MaxAttemptsExceeded"
             /\ hist.unlocks <= N
    /\ (last.op = "open" /\ hist.distinctFresh /\ hist.unlocks = N)
          => last.res = "ArchiveDestroyed"

C3_Witness ==
    /\ last.op = "open"
    /\ hist.distinctFresh
    /\ hist.unlocks = N
    /\ last.res = "ArchiveDestroyed"

\* C4: an unlock that returns InvalidPassword has incremented the attempt
\* counter by exactly 1 and has written the incremented header to the file.
C4_InvalidPasswordIsCounted ==
    (last.op = "unlock" /\ last.res = "InvalidPassword")
       => /\ reader[last.r].header.attempt_counter
                = last.pre_reader.header.attempt_counter + 1
          /\ Persisted(reader[last.r], file)
          /\ disk_header.attempt_counter
                = deserialize_header(last.pre_file.header).attempt_counter + 1

\* C5: when unlock returns MaxAttemptsExceeded the destruction is complete
\* and persisted: the stored header is flagged destroyed and every stored key
\* slot is inactive, its key bytes overwritten with random bytes.
C5_MaxAttemptsExceededIsPersisted ==
    (last.op = "unlock" /\ last.res = "MaxAttemptsExceeded")
       => /\ disk_header.destroyed
          /\ Len(disk_slots) = Len(last.pre_reader.key_slots)
          /\ \A i \in 1..Len(disk_slots) :
                /\ ~disk_slots[i].active
                /\ disk_slots[i].encrypted_key.kind = "rand"
                /\ disk_slots[i].encrypted_key # last.pre_reader.key_slots[i].encrypted_key
          /\ reader[last.r].header.destroyed
          /\ are_key_slots_destroyed(reader[last.r].key_slots)

C5_Witness ==
    /\ last.op = "unlock"
    /\ last.res = "MaxAttemptsExceeded"
    /\ Len(disk_slots) > 0
    /\ ~deserialize_header(last.pre_file.header).destroyed

\* C6: when the header HMAC does not verify under the integrity key of the
\* supplied password, unlock increments the counter by exactly 1; it destroys
\* and returns MaxAttemptsExceeded exactly when the incremented counter equals
\* max_attempts, and otherwise returns InvalidPassword with destroyed still
\* false; either way header and key slots are in the file on return.
C6_HmacFailureCountsAndPersists ==
    (last.op = "unlock" /\ last.hmac = "fail")
       => LET pre == last.pre_reader.header
              post == reader[last.r].header
          IN  /\ post.attempt_counter = pre.attempt_counter + 1
              /\ post.max_attempts = pre.max_attempts
              /\ (last.res = "MaxAttemptsExceeded")
                    <=> (post.attempt_counter = post.max_attempts)
              /\ last.res = "MaxAttemptsExceeded"
                    => post.destroyed /\ are_key_slots_destroyed(reader[last.r].key_slots)
              /\ last.res # "MaxAttemptsExceeded"
                    => /\ last.res = "InvalidPassword"
                       /\ ~post.destroyed
                       /\ reader[last.r].key_slots = last.pre_reader.key_slots
              /\ Persisted(reader[last.r], file)

C6_Witness ==
    /\ last.op = "unlock"
    /\ last.hmac = "fail"
    /\ last.res = "InvalidPassword"
    /\ reader[last.r].header.attempt_counter = N - 1
    /\ disk_header.attempt_counter = N - 1

\* C7: an unlock that returns Ok leaves the attempt counter and every other
\* header field as they were, in the reader and in the file; get_info reports
\* the same current_attempts as before.
C7_SuccessKeepsCounter ==
    (last.op = "unlock" /\ last.res = "Ok")
       => /\ reader[last.r].header = last.pre_reader.header
          /\ reader[last.r].key_slots = last.pre_reader.key_slots
          /\ file = last.pre_file
          /\ get_info(reader[last.r]).current_attempts
                = get_info(last.pre_reader).current_attempts

C7_Witness ==
    /\ last.op = "unlock"
    /\ last.res = "Ok"
    /\ last.pre_reader.header.attempt_counter > 0
    /\ get_info(reader[last.r]).current_attempts > 0

\* C8: the destroyed flag is sticky: once the stored header, or the header of
\* a reader instance, is flagged destroyed, no call clears the flag.
C8_DestroyedIsSticky ==
    [][ /\ (Archive /\ disk_header.destroyed)
              => deserialize_header(file'.header).destroyed
        /\ \A r \in ReaderIds :
              (reader[r].live /\ reader[r].header.destroyed /\ last'.op # "open")
                 => reader'[r].header.destroyed ]_vars

\* C9: in every state after a successful write_to_file the header satisfies
\* 0 <= attempt_counter <= max_attempts and 3 <= max_attempts <= 99, in the
\* file and in every reader, and max_attempts stays the configured value.
HeaderInRange(h) ==
    /\ 0 <= h.attempt_counter
    /\ h.attempt_counter <= h.max_attempts
    /\ MIN_MAX_ATTEMPTS <= h.max_attempts
    /\ h.max_attempts <= MAX_MAX_ATTEMPTS
    /\ h.max_attempts = N

C9_CounterAndMaxInRange ==
    /\ Archive => HeaderInRange(disk_header)
    /\ \A r \in ReaderIds : reader[r].live => HeaderInRange(reader[r].header)

C9_Witness ==
    /\ Archive
    /\ disk_header.attempt_counter = disk_header.max_attempts
    /\ reader[1].live
    /\ reader[1].header.attempt_counter = reader[1].header.max_attempts

\* C10: a destroyed archive admits no further attempt: open on a file whose
\* header is flagged destroyed or whose counter has reached max_attempts fails
\* with ArchiveDestroyed; unlock on a reader whose header is so returns
\* ArchiveDestroyed, derives no key and changes neither reader nor file.
C10_DestroyedAdmitsNoAttempt ==
    /\ (/\ last.op = "open"
        /\ Archive
        /\ disk_header.destroyed \/ disk_header.attempt_counter >= disk_header.max_attempts)
          => /\ last.res = "ArchiveDestroyed"
             /\ reader[last.r] = last.pre_reader
             /\ file = last.pre_file
    /\ (/\ last.op = "unlock"
        /\ \/ last.pre_reader.header.destroyed
           \/ last.pre_reader.header.attempt_counter
                 >= last.pre_reader.header.max_attempts)
          => /\ last.res = "ArchiveDestroyed"
             /\ last.kdf = 0
             /\ reader[last.r] = last.pre_reader
             /\ file = last.pre_file

C10_Witness ==
    /\ last.op = "unlock"
    /\ last.pre_reader.header.destroyed
    /\ last.res = "ArchiveDestroyed"
    /\ disk_header.destroyed

\* the integrity key of the archive's password for header h
real_integrity_key(h) ==
    derive_key(realPw, integrity_salt(h.salt), KdfParams(h)).key

\* C11: after failed unlocks, when an earlier copy of the file holding a
\* smaller attempt_counter is put back, the next unlock (on a reader opened
\* after that) fails the header verification and takes the tampering path:
\* the attempt is counted and persisted.
C11_RollbackIsDetected ==
    (last.op = "unlock" /\ last.restored /\ snap.back)
       => /\ last.hmac = "fail"
          /\ reader[last.r].header.attempt_counter
                = last.pre_reader.header.attempt_counter + 1
          /\ Persisted(reader[last.r], file)

\* C12: after the file is rolled back to a copy whose HMAC is valid under
\* the integrity key of the archive's password, unlock returns Ok exactly
\* when it is given the archive's password; with any other password the
\* header verification fails and the attempt is counted and persisted.
C12_RollbackNeedsPassword ==
    (/\ last.op = "unlock"
     /\ last.restored
     /\ verify_checksum(real_integrity_key(last.pre_reader.header),
                        last.pre_reader.header))
       => /\ (last.res = "Ok") <=> (last.pw = realPw)
          /\ last.pw # realPw
                => /\ last.hmac = "fail"
                   /\ reader[last.r].header.attempt_counter
                         = last.pre_reader.header.attempt_counter + 1
                   /\ Persisted(reader[last.r], file)

C12_Witness ==
    /\ last.op = "unlock"
    /\ last.restored
    /\ snap.back
    /\ verify_checksum(real_integrity_key(last.pre_reader.header),
                       last.pre_reader.header)
    /\ last.pw # realPw
    /\ last.hmac = "fail"
    /\ disk_header.attempt_counter = last.pre_reader.header.attempt_counter + 1

\* C13: verify_checksum succeeds exactly when the header's checksum is the
\* HMAC, under the counter's key, of the header with its checksum zeroed: a
\* header verifies iff it is, field for field, the header whose checksum was
\* last refreshed; after a refresh, a change of any single other field makes
\* verify_checksum fail.
C13_VerifyIffChecksumMatches ==
    /\ (unit.op = "verify_checksum" /\ unit.has_signed)
          => (unit.ok <=> unit.header = unit.signed)
    /\ (unit.op = "verify_checksum" /\ ~unit.has_signed) => ~unit.ok
    /\ unit.op = "verify_checksum"
          => (unit.err = IF unit.ok THEN "none" ELSE "CounterTamperingDetected")
    /\ unit.op = "set_field"
          => /\ verify_checksum(unit.key, unit.pre_header)
             /\ ~verify_checksum(unit.key, unit.header)

C13_Witness ==
    /\ unit.op = "verify_checksum"
    /\ unit.has_signed
    /\ ~unit.ok
    /\ unit.signed.attempt_counter > 0
    /\ unit.header = [unit.signed EXCEPT !.attempt_counter = @ - 1]

\* C15: increment fails with ArchiveDestroyed and leaves the header as it
\* was when the header is destroyed or attempt_counter >= max_attempts;
\* otherwise attempt_counter grows by exactly 1, the refreshed checksum
\* verifies under the same key, get_remaining_attempts drops by exactly 1,
\* and no field other than attempt_counter and checksum changes.
C15_IncrementContract ==
    unit.op = "increment"
       => LET pre == unit.pre_header
              post == unit.header
          IN  IF pre.destroyed \/ pre.attempt_counter >= pre.max_attempts
              THEN /\ ~unit.ok
                   /\ unit.err = "ArchiveDestroyed"
                   /\ post = pre
              ELSE /\ unit.ok
                   /\ post.attempt_counter = pre.attempt_counter + 1
                   /\ verify_checksum(unit.key, post)
                   /\ get_remaining_attempts(post) = get_remaining_attempts(pre) - 1
                   /\ [post EXCEPT !.attempt_counter = pre.attempt_counter,
                                   !.checksum = pre.checksum] = pre

C15_Witness ==
    /\ unit.op = "increment"
    /\ unit.ok
    /\ unit.header.attempt_counter = unit.pre_header.attempt_counter + 1
    /\ unit.header.attempt_counter = unit.header.max_attempts
    /\ get_remaining_attempts(unit.header) = 0
    /\ unit.header.checksum # unit.pre_header.checksum

\* C16: after execute_destruction, for any header and any list of key slots,
\* the header is flagged destroyed and is_destroyed holds, every slot is
\* inactive and reported zeroized and keeps its slot_id and the length of its
\* encrypted_key, the number of slots is unchanged, and max_attempts and
\* attempt_counter are unchanged.
C16_DestructionPostcondition ==
    unit.op = "execute_destruction"
       => /\ unit.header.destroyed
          /\ is_destroyed(unit.header)
          /\ Len(unit.key_slots) = Len(unit.pre_slots)
          /\ \A i \in 1..Len(unit.pre_slots) :
                /\ ~unit.key_slots[i].active
                /\ is_zeroized(unit.key_slots[i])
                /\ unit.key_slots[i].slot_id = unit.pre_slots[i].slot_id
                /\ unit.key_slots[i].encrypted_key.len = unit.pre_slots[i].encrypted_key.len
          /\ are_key_slots_destroyed(unit.key_slots)
          /\ unit.header.max_attempts = unit.pre_header.max_attempts
          /\ unit.header.attempt_counter = unit.pre_header.attempt_counter

C16_Witness ==
    /\ unit.op = "execute_destruction"
    /\ ~unit.pre_header.destroyed
    /\ unit.pre_header.attempt_counter < unit.pre_header.max_attempts
    /\ Len(unit.pre_slots) = 2
    /\ unit.pre_slots[1].active
    /\ unit.pre_slots[1].encrypted_key.len > 0
    /\ unit.key_slots[1].encrypted_key # unit.pre_slots[1].encrypted_key
    /\ unit.key_slots[1].encrypted_key.len = unit.pre_slots[1].encrypted_key.len

\* C17: execute_destruction applied again to a header and slot list already
\* destroyed returns no error and leaves the destroyed flag, the slots'
\* active flags, the slot count and the key lengths as the first application
\* left them (the random fill values may differ).
C17_DestructionIdempotent ==
    (/\ unit.op = "execute_destruction"
     /\ unit.destructions >= 2
     /\ unit.pre_header.destroyed)
       => /\ unit.ok
          /\ unit.header.destroyed = unit.pre_header.destroyed
          /\ Len(unit.key_slots) = Len(unit.pre_slots)
          /\ \A i \in 1..Len(unit.pre_slots) :
                /\ unit.key_slots[i].active = unit.pre_slots[i].active
                /\ unit.key_slots[i].encrypted_key.len = unit.pre_slots[i].encrypted_key.len

C17_Witness ==
    /\ unit.op = "execute_destruction"
    /\ unit.destructions = 2
    /\ unit.pre_header.destroyed
    /\ unit.ok
    /\ Len(unit.key_slots) = 2
    /\ unit.key_slots[2].encrypted_key.len > 0
    /\ unit.header.checksum # unit.pre_header.checksum

\* the add_file calls made: the first one for a path (0: none), their paths
FirstAdded(path) ==
    IF \E i \in 1..Len(hist.added) : hist.added[i].path = path
    THEN CHOOSE i \in 1..Len(hist.added) :
            /\ hist.added[i].path = path
            /\ \A j \in 1..(i - 1) : hist.added[j].path # path
    ELSE 0

AddedOnce(path) ==
    Cardinality({ i \in 1..Len(hist.added) : hist.added[i].path = path }) = 1

AddedPaths == [i \in 1..Len(hist.added) |-> hist.added[i].path]

Unlocked(r) == r \in hist.ok

\* C18: round trip: for every content, cipher and compression, a file added
\* with add_file and written with write_to_file(password) is given back
\* byte for byte by extract_file after open and unlock(password); and the
\* first unlock of a freshly written archive with the creation password
\* returns Ok.
C18_RoundTrip ==
    /\ (last.op = "unlock" /\ last.pw = realPw /\ last.pre_hist.unlocks = 0)
          => last.res = "Ok"
    /\ (last.op = "extract_file" /\ Unlocked(last.r) /\ AddedOnce(last.arg))
          => /\ last.res = "Ok"
             /\ last.out = hist.added[FirstAdded(last.arg)].data

C18_Witness ==
    /\ last.op = "extract_file"
    /\ Unlocked(last.r)
    /\ last.res = "Ok"
    /\ writer.config.compression_algorithm = "Brotli"
    /\ writer.config.encryption_algorithm = ChaCha20Poly1305
    /\ Len(hist.added) = 1
    /\ hist.added[1].data = << 66, 66 >>
    /\ last.out = << 66, 66 >>

\* C19: after a successful unlock list_files returns the archive paths given
\* to add_file, one per call, in the order of the calls; extract_file of a
\* path yields the content stored for that path (of the first entry of that
\* path), whatever the other entries are, and each entry's range data_offset
\* .. data_offset + encrypted_size holds that entry's ciphertext alone.
C19_ListingAndRanges ==
    /\ (last.op = "list_files" /\ Unlocked(last.r))
          => last.res = "Ok" /\ last.out = AddedPaths
    /\ (last.op = "extract_file" /\ Unlocked(last.r))
          => IF FirstAdded(last.arg) = 0
             THEN last.res = "FileNotFound"
             ELSE /\ last.res = "Ok"
                  /\ last.out = hist.added[FirstAdded(last.arg)].data
    /\ \A r \in ReaderIds : Unlocked(r)
          => LET entries == reader[r].directory.entries
             IN  /\ Len(entries) = Len(hist.added)
                 /\ Len(file.payload) = Len(entries)
                 /\ \A i \in 1..Len(entries) :
                       /\ entries[i].encrypted_size = file.payload[i].len
                       /\ entries[i].data_offset
                             = payload_len(SubSeq(file.payload, 1, i - 1))
                       /\ read_payload(file,
                                       reader[r].payload_offset + entries[i].data_offset,
                                       entries[i].encrypted_size).data = file.payload[i]

C19_Witness ==
    /\ last.op = "extract_file"
    /\ Unlocked(last.r)
    /\ hist.added = << [path |-> 1, data |-> << 65 >>], [path |-> 2, data |-> << 66, 66 >>] >>
    /\ last.arg = 2
    /\ last.res = "Ok"
    /\ last.out = << 66, 66 >>

\* C14: when one byte of the stored header other than the checksum is
\* altered after creation (in particular the first header byte, set to its
\* complement), open still succeeds and the first unlock with the archive's
\* password fails the header verification, returns InvalidPassword and
\* persists attempt_counter = 1.
C14_AlteredHeaderByteIsCounted ==
    /\ (last.op = "open" /\ hist.tampered = "header" /\ hist.unlocks = 0)
          => last.res = "Ok"
    /\ (/\ last.op = "unlock"
        /\ last.pre_hist.tampered = "header"
        /\ last.pre_hist.unlocks = 0
        /\ last.pw = realPw)
          => /\ last.hmac = "fail"
             /\ last.res = "InvalidPassword"
             /\ disk_header.attempt_counter = 1

\* C20: list_files and extract_file succeed only on a reader on which an
\* earlier unlock returned Ok; on a reader where none did (unlock never
\* called, or every call an error, the directory's decryption error
\* included) they return an error and give no entries and no data.
C20_ListingNeedsSuccessfulUnlock ==
    (last.op \in {"list_files", "extract_file"} /\ ~Unlocked(last.r))
       => /\ last.res # "Ok"
          /\ last.out = <<>>
\* C21: list_files and extract_file never touch the counter: whether the call
\* succeeds or fails (reader not unlocked, FileNotFound, a ciphertext whose
\* AEAD tag does not match, a stream that does not decompress), the reader's
\* header and key slots and every byte of the archive file are afterwards
\* what they were before the call.
C21_ReadsLeaveCounterAlone ==
    last.op \in {"list_files", "extract_file"} =>
        /\ reader[last.r].header = last.pre_reader.header
        /\ reader[last.r].key_slots = last.pre_reader.key_slots
        /\ file = last.pre_file

\* an extract_file that failed on a ciphertext altered in the file, after
\* an unlock that had counted nothing
C21_Witness ==
    /\ last.op = "extract_file"
    /\ last.res = "EncryptionError"
    /\ hist.tampered = "payload"
    /\ last.pre_reader.master_key # <<>>
    /\ file = last.pre_file

\* the latest call met a ciphertext whose AEAD tag does not match, with the
\* right key in hand: an unlock with the archive's password, the header
\* verified, on a file whose directory was altered; or an extract_file on an
\* unlocked reader whose entry's ciphertext was altered
DirectoryTagMismatch ==
    /\ last.op = "unlock"
    /\ last.pw = realPw
    /\ last.hmac = "ok"
    /\ last.pre_hist.tampered = "directory"

PayloadTagMismatch ==
    LET i == find_entry(last.pre_reader.directory, last.arg)
    IN  /\ last.op = "extract_file"
        /\ last.pre_reader.master_key # <<>>
        /\ i # 0
        /\ i <= Len(last.pre_file.payload)
        /\ last.pre_file.payload[i].kind = "rand"

C23_GetInfoReportsHeader ==
    last.op = "get_info" =>
        LET h == reader[last.r].header
            info == last.info
        IN  /\ info.max_attempts = h.max_attempts
            /\ info.current_attempts = h.attempt_counter
            /\ info.remaining_attempts >= 0
            /\ info.remaining_attempts + info.current_attempts = info.max_attempts
            /\ info.current_attempts >= info.max_attempts => info.remaining_attempts = 0
            /\ info.destroyed = h.destroyed
            /\ info.file_count = IF Unlocked(last.r) THEN Len(hist.added) ELSE 0

\* get_info on a reader that an unlock has just destroyed, of an archive
\* that holds a file
C23_Witness ==
    /\ last.op = "get_info"
    /\ hist.added # <<>>
    /\ last.info.destroyed
    /\ last.info.remaining_attempts = 0
    /\ last.info.current_attempts = N

\* C24: open never counts as an attempt: whether it succeeds or fails (other
\* first bytes than the magic number -> FormatError, a header that does not
\* decode -> HeaderCorrupted, max_attempts out of range ->
\* InvalidConfiguration, a destroyed archive -> ArchiveDestroyed), open leaves
\* the archive file as it was; a successful open yields a reader with no master
\* key, an empty directory, and the header and key slots exactly as stored.
C24_OpenReadsOnly ==
    last.op = "open" =>
        LET f == last.pre_file
            h == deserialize_header(f.header)
            rd == reader[last.r]
        IN  /\ file = f
            /\ f.state = "badmagic" => last.res = "FormatError"
            /\ f.state = "archive" /\ ~header_decodable(f.header)
                  => last.res = "HeaderCorrupted"
            /\ f.state = "archive" /\ header_decodable(f.header)
                  /\ h.max_attempts \notin MIN_MAX_ATTEMPTS..MAX_MAX_ATTEMPTS
                  => last.res = "InvalidConfiguration"
            /\ f.state = "archive" /\ header_decodable(f.header)
                  /\ h.max_attempts \in MIN_MAX_ATTEMPTS..MAX_MAX_ATTEMPTS
                  /\ h.destroyed
                  => last.res = "ArchiveDestroyed"
            /\ last.res = "Ok" =>
                  /\ rd.live
                  /\ rd.master_key = <<>>
                  /\ rd.directory.entries = <<>>
                  /\ serialize_header(rd.header) = f.header
                  /\ [i \in 1..Len(rd.key_slots) |-> serialize_slot(rd.key_slots[i])]
                        = f.slots

\* an open that succeeded on an archive with failed attempts counted in it,
\* replacing a reader that held the master key
C24_Witness ==
    /\ last.op = "open"
    /\ last.res = "Ok"
    /\ last.pre_reader.master_key # <<>>
    /\ reader[last.r].header.attempt_counter > 0
    /\ file = last.pre_file

\* C25: no oracle: unlock never returns CounterTamperingDetected, and for
\* equal counter and max_attempts an unlock on a tampered header, with any
\* password, gives what an unlock with a wrong password gives on an untampered
\* header: InvalidPassword (MaxAttemptsExceeded at the last attempt) and the
\* attempt counted, in the reader and in the file.
C25_NoOracle ==
    last.op = "unlock" =>
        LET h == last.pre_reader.header
            expected == IF h.attempt_counter + 1 >= h.max_attempts
                        THEN "MaxAttemptsExceeded" ELSE "InvalidPassword"
        IN  /\ last.res # "CounterTamperingDetected"
            /\ (/\ ~is_destroyed(h)
                /\ last.pre_hist.tampered = "header" \/ last.pw # realPw)
                  => /\ last.res = expected
                     /\ reader[last.r].header.attempt_counter = h.attempt_counter + 1
                     /\ disk_header.attempt_counter = h.attempt_counter + 1

\* C26: a header can only be created with 3 <= max_attempts <= 99:
\* write_to_file (through SecurityHeader::new) fails with InvalidConfiguration
\* for any other max_attempts; a header just created has attempt_counter = 0
\* and destroyed = false; and open rejects a stored header whose max_attempts
\* is outside the range.
C26_MaxAttemptsRange ==
    /\ last.op = "write_to_file" =>
          LET m == writer.config.max_attempts
          IN  /\ m \notin MIN_MAX_ATTEMPTS..MAX_MAX_ATTEMPTS
                    => last.res = "InvalidConfiguration" /\ file.state # "archive"
              /\ last.res = "Ok" =>
                    /\ file.state = "archive"
                    /\ disk_header.max_attempts = m
                    /\ disk_header.attempt_counter = 0
                    /\ ~disk_header.destroyed
    /\ (/\ last.op = "open"
        /\ last.pre_file.state = "archive"
        /\ header_decodable(last.pre_file.header)
        /\ deserialize_header(last.pre_file.header).max_attempts
               \notin MIN_MAX_ATTEMPTS..MAX_MAX_ATTEMPTS)
          => last.res = "InvalidConfiguration"

\* write_to_file refused with max_attempts one past the upper limit
C26_Witness ==
    /\ last.op = "write_to_file"
    /\ writer.config.max_attempts = MAX_MAX_ATTEMPTS + 1
    /\ last.res = "InvalidConfiguration"

\* C27: derive_key validates its parameters before deriving: for Argon2id it
\* returns InvalidConfiguration unless memory >= 8192, iterations >= 1 and
\* 1 <= parallelism <= 16; for PBKDF2-SHA256 it returns InvalidConfiguration
\* unless iterations >= 1000; with valid parameters it returns a key, the same
\* key whenever password, salt and parameters are the same.
C27_DeriveKeyValidates ==
    unit.op = "derive_key" =>
        LET h == unit.header
            valid == IF h.kdf_algorithm = Argon2id
                     THEN /\ h.kdf_memory >= 8192
                          /\ h.kdf_iterations >= 1
                          /\ h.kdf_parallelism >= 1
                          /\ h.kdf_parallelism <= 16
                     ELSE h.kdf_iterations >= 1000
        IN  /\ ~valid => ~unit.ok /\ unit.err = "InvalidConfiguration"
            /\ valid => unit.ok
            /\ (unit.ok /\ unit.pre_ok /\ unit.pw = unit.pre_pw /\ unit.salt = unit.pre_salt)
                  => unit.key = unit.pre_key

\* two derivations from the same password and salt, at the Argon2 limits
C27_Witness ==
    /\ unit.op = "derive_key"
    /\ unit.header.kdf_algorithm = Argon2id
    /\ unit.header.kdf_memory = 8192
    /\ unit.header.kdf_parallelism = 16
    /\ unit.ok /\ unit.pre_ok
    /\ unit.pw = unit.pre_pw /\ unit.salt = unit.pre_salt
    /\ unit.key = unit.pre_key

\* C28: two reader instances opened on the same archive file race the
\* counter.  A failed unlock that counts writes its own reader's counter plus
\* one into the file, whatever another reader has stored there since this
\* one was opened; so there is an interleaving (C28_Witness) in which both
\* readers perform a failed unlock and the persisted attempt_counter grows by
\* only 1, and the failed unlocks outnumber the persisted counter.
C28_CountsFromOwnCopy ==
    (/\ last.op = "unlock"
     /\ last.hmac = "fail"
     /\ last.res = "InvalidPassword")
       => /\ disk_header.attempt_counter = last.pre_reader.header.attempt_counter + 1
          /\ hist.failed >= 1

\* the lost update: two readers opened on the fresh archive, each fails one
\* unlock, and the file holds attempt_counter = 1
C28_Witness ==
    /\ last.op = "unlock"
    /\ last.res = "InvalidPassword"
    /\ hist.unlocks = 2
    /\ hist.failed = 2
    /\ reader[1].header.attempt_counter = 1
    /\ reader[2].header.attempt_counter = 1
    /\ deserialize_header(last.pre_file.header).attempt_counter = 1
    /\ disk_header.attempt_counter = 1

\* C29: across any interleaving of open and unlock calls by any number of
\* reader instances on the same archive file, with no modification of the
\* file from outside the program, the persisted attempt_counter never
\* decreases: a reader opened before other readers' failed attempts cannot
\* write back a smaller counter.
C29_PersistedCounterNeverDecreases ==
    (last.op \in {"open", "unlock"} /\ last.pre_file.state = "archive")
       => disk_header.attempt_counter
             >= deserialize_header(last.pre_file.header).attempt_counter

\* C30: on an archive whose file is only ever modified by this program's own
\* unlock calls, unlock with the correct password never increments the
\* attempt counter, never triggers destruction and never returns
\* InvalidPassword or MaxAttemptsExceeded, whatever failed attempts preceded
\* it, as long as the archive is not yet destroyed.
C30_CorrectPasswordNeverCounted ==
    (/\ last.op = "unlock"
     /\ last.pw = realPw
     /\ ~is_destroyed(last.pre_reader.header))
       => /\ last.res \notin {"InvalidPassword", "MaxAttemptsExceeded"}
          /\ reader[last.r].header.attempt_counter
                = last.pre_reader.header.attempt_counter
          /\ disk_header.attempt_counter
                = deserialize_header(last.pre_file.header).attempt_counter
          /\ ~disk_header.destroyed

\* C31: write_to_file produces a file that open parses into: a header with
\* attempt_counter = 0, destroyed = false, max_attempts and the KDF,
\* encryption and compression fields equal to the writer's config, and a
\* checksum that verifies under the integrity key derived from the password;
\* exactly one key slot, with slot_id 0 and active, whose encrypted_key
\* decrypts under the wrapping key to the 32-byte master key.
C31_WrittenFileParses ==
    (last.op = "open" /\ last.pre_file.state = "archive" /\ hist.unlocks = 0) =>
        LET rd == reader[last.r]
            h == rd.header
            config == writer.config
            wrapping == derive_key(realPw, h.salt, config.kdf_params)
            integrity == derive_key(realPw, integrity_salt(h.salt), config.kdf_params)
            master == decrypt_data(rd.key_slots[1].encrypted_key, wrapping.key,
                                   config.encryption_algorithm)
        IN  /\ last.res = "Ok"
            /\ h.attempt_counter = 0
            /\ ~h.destroyed
            /\ h.max_attempts = config.max_attempts
            /\ KdfParams(h) = config.kdf_params
            /\ h.encryption_algorithm = config.encryption_algorithm
            /\ h.compression_algorithm = config.compression_algorithm
            /\ integrity.ok
            /\ verify_checksum(integrity.key, h)
            /\ Len(rd.key_slots) = 1
            /\ rd.key_slots[1].slot_id = 0
            /\ rd.key_slots[1].active
            /\ wrapping.ok
            /\ master.ok
            /\ master.pt = writer.master_key
            /\ Len(master.pt) = MASTER_KEY_SIZE

\* an archive written with PBKDF2, ChaCha20-Poly1305 and no compression,
\* holding a file, just opened
C31_Witness ==
    /\ last.op = "open"
    /\ last.res = "Ok"
    /\ hist.unlocks = 0
    /\ hist.added # <<>>
    /\ reader[1].header.kdf_algorithm = Pbkdf2Sha256
    /\ reader[1].header.encryption_algorithm = ChaCha20Poly1305
    /\ reader[1].header.compression_algorithm = "None"

\* C36: write_to_file is all-or-nothing with respect to configuration errors:
\* when it fails with InvalidConfiguration (max_attempts outside 3..99 or
\* invalid KDF parameters), no output file is created and what was at the
\* output path is left unchanged.
C36_FailedWriteLeavesNoFile ==
    (last.op = "write_to_file" /\ last.res = "InvalidConfiguration")
       => file = last.pre_file /\ file.state = "absent"

\* C32: whenever no reader operation is in progress, a single reader's
\* in-memory header and key slots equal the header and key slots stored in
\* the file: every unlock that changes the in-memory header (increment or
\* destruction) has written the identical bytes to the file by the time it
\* returns InvalidPassword or MaxAttemptsExceeded.
C32_ReaderMatchesFile ==
    reader[1].live =>
        /\ Persisted(reader[1], file)
        /\ deserialize_header(file.header) = reader[1].header
        /\ (last.op = "unlock" /\ reader[1].header # last.pre_reader.header)
              => UnlockFailed(last.res)

\* an unlock has destroyed the archive: header and slots changed in memory
\* and the file holds the same
C32_Witness ==
    /\ last.op = "unlock"
    /\ last.res = "MaxAttemptsExceeded"
    /\ reader[1].header.destroyed
    /\ reader[1].key_slots # last.pre_reader.key_slots
    /\ Persisted(reader[1], file)

\* C33: the in-place persist after a failed unlock or a destruction rewrites
\* only the header and key-slot segments: the serialized lengths of the
\* header and of every slot are what they were at open, so the slot count,
\* directory_offset, the directory ciphertext and every payload byte in the
\* file are unchanged.
C33_PersistKeepsLayout ==
    (last.op = "unlock" /\ file # last.pre_file) =>
        LET f == last.pre_file
        IN  /\ Len(file.header) = Len(f.header)
            /\ Len(file.slots) = Len(f.slots)
            /\ \A i \in 1..Len(f.slots) :
                  slot_bytes(deserialize_slot(file.slots[i]))
                     = slot_bytes(deserialize_slot(f.slots[i]))
            /\ file.state = f.state
            /\ file.directory_at = f.directory_at
            /\ directory_offset_of(reader[last.r].key_slots) = f.directory_at
            /\ file.directory = f.directory
            /\ file.payload = f.payload

\* a destruction persisted in an archive that holds a file: the slot is
\* overwritten, directory and payload are as they were
C33_Witness ==
    /\ last.op = "unlock"
    /\ last.res = "MaxAttemptsExceeded"
    /\ file.slots # last.pre_file.slots
    /\ file.payload # <<>>
    /\ file.payload = last.pre_file.payload
    /\ file.directory = last.pre_file.directory

\* C34: once an unlock call on a reader has returned MaxAttemptsExceeded (the
\* archive is destroyed), no later list_files or extract_file call on that
\* reader succeeds, even if the reader had been unlocked successfully before
\* the failed attempts.
C34_DestroyedReaderServesNothing ==
    (/\ last.op \in {"list_files", "extract_file"}
     /\ last.pre_reader.header.destroyed)
       => last.res # "Ok"

\* the sum of the encrypted_size fields of a sequence of entries
RECURSIVE SumEncryptedSize(_)
SumEncryptedSize(entries) ==
    IF entries = <<>> THEN 0
    ELSE Head(entries).encrypted_size + SumEncryptedSize(Tail(entries))

\* the entries of writer w tile its payload buffer
Tiles(w) ==
    LET entries == w.directory.entries
    IN  /\ Len(entries) = Len(w.payload)
        /\ entries # <<>> => entries[1].data_offset = 0
        /\ \A i \in 1..(Len(entries) - 1) :
              entries[i + 1].data_offset = entries[i].data_offset + entries[i].encrypted_size
        /\ \A i \in 1..Len(entries) : entries[i].encrypted_size = w.payload[i].len
        /\ payload_len(w.payload) = SumEncryptedSize(entries)

\* C35: after any sequence of successful add_file calls on a writer, the
\* directory entries tile the payload buffer exactly: the first entry has
\* data_offset 0, each entry's data_offset is the previous entry's
\* data_offset + encrypted_size, the payload length is the sum of all
\* encrypted_size values; and a failed add_file leaves both directory and
\* payload unchanged.
C35_EntriesTilePayload ==
    [][/\ Tiles(writer')
       /\ (last'.op = "add_file" /\ last'.res # "Ok") => writer' = writer]_vars

\* two files of different sizes added: the second starts where the first ends
C35_Witness ==
    /\ last.op = "add_file"
    /\ last.res = "Ok"
    /\ Len(writer.directory.entries) = 2
    /\ writer.directory.entries[1].encrypted_size
          # writer.directory.entries[2].encrypted_size
    /\ writer.directory.entries[2].data_offset
          = writer.directory.entries[1].encrypted_size
    /\ Tiles(writer)

\* bitwise exclusive or of two naturals
RECURSIVE Xor(_, _)
Xor(a, b) ==
    IF a = 0 /\ b = 0 THEN 0
    ELSE (((a % 2) + (b % 2)) % 2) + (2 * Xor(a \div 2, b \div 2))

\* C37: writer and reader derive the two keys from the same salts: the key
\* that wraps the master key from header.salt, the key that signs the header
\* from the integrity salt, which is header.salt with byte 0 XORed with 0xFF
\* and every other byte equal; so the integrity salt differs from the
\* wrapping salt, XORing twice restores the salt, and a reader's first unlock
\* with the archive's password verifies the header the writer signed.
C37_IntegritySaltIsSaltXorFF ==
    /\ (file.state = "archive" /\ disk_header.checksum.kind = "hmac") =>
          LET salt == disk_header.salt
              signing == disk_header.checksum.key.salt
              wrapping == disk_slots[1].encrypted_key.key.salt
          IN  /\ Len(signing) = SALT_SIZE
              /\ Len(salt) = SALT_SIZE
              /\ signing[1] = Xor(salt[1], 255)
              /\ \A i \in 2..SALT_SIZE : signing[i] = salt[i]
              /\ signing # salt
              /\ integrity_salt(signing) = salt
              /\ disk_slots[1].encrypted_key.kind = "aead" => wrapping = salt
              /\ \A b \in 0..255 :
                    LET other == [salt EXCEPT ![1] = b]
                    IN  /\ integrity_salt(other)[1] = Xor(b, 255)
                        /\ integrity_salt(other) # other
                        /\ integrity_salt(integrity_salt(other)) = other
    /\ (last.op = "unlock" /\ last.pw = realPw /\ last.pre_hist.unlocks = 0)
          => last.hmac = "ok" /\ last.res = "Ok"

\* a header signed by the reader (a counted wrong password) with the key of
\* the integrity salt, in an archive the writer made with PBKDF2
C37_Witness ==
    /\ last.op = "unlock"
    /\ last.hmac = "fail"
    /\ last.res = "InvalidPassword"
    /\ disk_header.kdf_algorithm = Pbkdf2Sha256
    /\ disk_header.checksum.kind = "hmac"
    /\ disk_header.checksum.key.pw = last.pw
    /\ disk_header.checksum.key.salt = integrity_salt(disk_header.salt)
    /\ disk_header.checksum.key.salt # disk_header.salt

====
